---- MODULE Spec2Model ----
(***************************************************************************)
(* DeepInsight orchestration core: the cancellation token, the retry       *)
(* wrapper callGeminiWithRetry, and the per-turn plan / review / execute / *)
(* audit pipeline of the chat component.                                   *)
(*                                                                         *)
(* JavaScript runs every handler to its next await before anything else    *)
(* runs; the model keeps that: an action is one synchronous segment        *)
(* between two awaits of the code.                                         *)
(***************************************************************************)
EXTENDS Integers, Sequences, FiniteSets, TLC

(***************************************************************************)
(* Bounds of the model                                                     *)
(***************************************************************************)
MaxRetries == 5      \* largest `retries` argument tried by SpecRetry
MaxTokens == 3       \* AbortControllers created in one SpecRetry behaviour
MaxRuns == 3         \* runs (handleSend / submitClarificationAnswers) per behaviour
MaxRaceRuns == 2     \* runs per behaviour of SpecRace
MaxTransient == 1    \* transient remote failures per behaviour of Spec
MaxLen == 4          \* symbols in a text given to the parser (SpecParse)
MaxBriefings == 3    \* activations of initializeAgentSwarm (SpecRegistry)

(***************************************************************************)
(* Values                                                                  *)
(***************************************************************************)
NoController == 0    \* activeController = null

\* ids of the questions of a clarification request
QuestionIds == {"q1", "q2"}

\* clarificationAnswers = {} and customInputMap = {}: `prev[qId] || []`
NoAnswers == [q \in QuestionIds |-> <<>>]
NoCustomInput == [q \in QuestionIds |-> ""]

\* file names of the uploaded documents
Docs == {"d1", "d2"}

\* latest when exactly the documents of S were briefed, all with success.
NoSessions == [d \in Docs |-> 0]

Briefed(S) == [d \in Docs |-> IF d \in S THEN "succeeded" ELSE "none"]

Ok(v) == [ok |-> TRUE, value |-> v, status |-> 0, msg |-> ""]
Err(status, msg) == [ok |-> FALSE, value |-> "", status |-> status, msg |-> msg]

\* new Error("USER_ABORTED")
UserAborted == Err(0, "USER_ABORTED")

\* new Error("API call failed after max retries")
MaxRetriesError == Err(0, "API call failed after max retries")

\* The values an apiCall closure may resolve with (opaque payloads).
Values == {"v1", "v2"}

\* The errors the remote operation may reject with: {status, message}.
\* status 0 stands for an error object without a status.
RemoteErrors ==
    { Err(429, "Too Many Requests"),
      Err(0, "got 429 from upstream"),
      Err(0, "quota exceeded"),
      Err(503, "Service Unavailable"),
      Err(0, "got 503 from upstream"),
      Err(0, "model overloaded"),
      Err(500, "internal error"),
      Err(0, "fetch failed"),
      UserAborted }

\* msg.includes(sub) over the messages above
MsgIncludes(msg, sub) ==
    CASE sub = "429" -> msg \in {"got 429 from upstream"}
      [] sub = "quota" -> msg \in {"quota exceeded"}
      [] sub = "503" -> msg \in {"got 503 from upstream"}
      [] sub = "overloaded" -> msg \in {"model overloaded"}
      [] OTHER -> FALSE

\* Variant: every 5xx status counts as "overloaded".
isOverloaded_Any5xx(e) == e.status >= 500 \/ MsgIncludes(e.msg, "503") \/ MsgIncludes(e.msg, "overloaded")

isRateLimit(e) == e.status = 429 \/ MsgIncludes(e.msg, "429") \/ MsgIncludes(e.msg, "quota")
isOverloaded(e) == e.status = 503 \/ MsgIncludes(e.msg, "503") \/ MsgIncludes(e.msg, "overloaded")

\* Math.random() * 1000 lies in [0, 1000)
Jitters == {0, 999}

\* The (retries, baseDelay) pairs of the call sites, and the defaults.
BaseDelays == {2000, 3000, 5000}

RECURSIVE Pow2(_)
Pow2(n) == IF n = 0 THEN 1 ELSE 2 * Pow2(n - 1)

(***************************************************************************)
(* The tolerant parser: balanceJSON and cleanAndParseJSON                  *)
(***************************************************************************)
\* A text is a sequence of symbols. "F" stands for the three backquotes of a
\* code fence and "j" for the word json; the other symbols are characters.
Alphabet == {"{", "}", "[", "]", "\"", "\\", "1", ":", ",", " ", "F", "j"}
Whitespace == {" "}

\* The texts of at most n symbols.
Texts(n) == UNION { [1..k -> Alphabet] : k \in 0..n }

\* String.prototype.trim
trim(s) ==
    LET solid == { i \in 1..Len(s) : s[i] \notin Whitespace } IN
    IF solid = {} THEN <<>>
    ELSE SubSeq(s, CHOOSE i \in solid : \A k \in solid : i <= k,
                   CHOOSE i \in solid : \A k \in solid : i >= k)

\* s.indexOf(c) and s.lastIndexOf(c): zero-based, -1 when c does not occur
indexOf(s, c) ==
    LET at == { i \in 1..Len(s) : s[i] = c } IN
    IF at = {} THEN -1 ELSE (CHOOSE i \in at : \A k \in at : i <= k) - 1

lastIndexOf(s, c) ==
    LET at == { i \in 1..Len(s) : s[i] = c } IN
    IF at = {} THEN -1 ELSE (CHOOSE i \in at : \A k \in at : i >= k) - 1

\* s.substring(a, b): both indices are clamped to 0..s.length and swapped
\* when a > b.
Clamp(n, len) == IF n < 0 THEN 0 ELSE IF n > len THEN len ELSE n

substring(s, a, b) ==
    LET x == Clamp(a, Len(s))
        y == Clamp(b, Len(s))
    IN IF x > y THEN SubSeq(s, y + 1, x) ELSE SubSeq(s, x + 1, y)

\* text.replace(/```json/g, '') and text.replace(/```/g, '')
RECURSIVE removeFenceJson(_)
removeFenceJson(s) ==
    IF Len(s) < 2 THEN s
    ELSE IF s[1] = "F" /\ s[2] = "j" THEN removeFenceJson(SubSeq(s, 3, Len(s)))
    ELSE <<s[1]>> \o removeFenceJson(Tail(s))

removeFence(s) == SelectSeq(s, LAMBDA c : c # "F")

\* JSON.parse over the alphabet: the grammar of values made of objects,
\* arrays, strings (escapes \" and \\) and numbers of digits 1. Each
\* recogniser takes the position of the first symbol and gives the position
\* after the last one, 0 when there is no such value.
RECURSIVE SkipWs(_, _)
SkipWs(s, i) == IF i <= Len(s) /\ s[i] \in Whitespace THEN SkipWs(s, i + 1) ELSE i

Is(s, i, c) == i >= 1 /\ i <= Len(s) /\ s[i] = c

RECURSIVE StringEnd(_, _)
StringEnd(s, i) ==
    IF i > Len(s) THEN 0
    ELSE IF s[i] = "\"" THEN i + 1
    ELSE IF s[i] = "\\"
         THEN IF Is(s, i + 1, "\"") \/ Is(s, i + 1, "\\") THEN StringEnd(s, i + 2) ELSE 0
    ELSE StringEnd(s, i + 1)

RECURSIVE NumberEnd(_, _)
NumberEnd(s, i) == IF Is(s, i, "1") THEN NumberEnd(s, i + 1) ELSE i

RECURSIVE ValueEnd(_, _)
RECURSIVE ElementsEnd(_, _)
RECURSIVE MembersEnd(_, _)

\* elements after "[": value (ws "," ws value)* ws "]"
ElementsEnd(s, i) ==
    LET v == ValueEnd(s, i)
        k == SkipWs(s, v)
    IN IF v = 0 THEN 0
       ELSE IF Is(s, k, "]") THEN k + 1
       ELSE IF Is(s, k, ",") THEN ElementsEnd(s, SkipWs(s, k + 1))
       ELSE 0

\* members after "{": string ws ":" ws value (ws "," ws member)* ws "}"
MembersEnd(s, i) ==
    LET key == IF Is(s, i, "\"") THEN StringEnd(s, i + 1) ELSE 0
        colon == SkipWs(s, key)
        v == IF key # 0 /\ Is(s, colon, ":") THEN ValueEnd(s, SkipWs(s, colon + 1)) ELSE 0
        k == SkipWs(s, v)
    IN IF v = 0 THEN 0
       ELSE IF Is(s, k, "}") THEN k + 1
       ELSE IF Is(s, k, ",") THEN MembersEnd(s, SkipWs(s, k + 1))
       ELSE 0

ValueEnd(s, i) ==
    IF i < 1 \/ i > Len(s) THEN 0
    ELSE IF s[i] = "\"" THEN StringEnd(s, i + 1)
    ELSE IF s[i] = "1" THEN NumberEnd(s, i)
    ELSE IF s[i] = "["
         THEN LET k == SkipWs(s, i + 1) IN
              IF Is(s, k, "]") THEN k + 1 ELSE ElementsEnd(s, k)
    ELSE IF s[i] = "{"
         THEN LET k == SkipWs(s, i + 1) IN
              IF Is(s, k, "}") THEN k + 1 ELSE MembersEnd(s, k)
    ELSE 0

IsJSON(s) ==
    LET v == ValueEnd(s, SkipWs(s, 1)) IN
    v # 0 /\ SkipWs(s, v) = Len(s) + 1

\* The value of a JSON text, written without the whitespace between tokens:
\* two texts have the same value iff these agree.
RECURSIVE Squeeze(_, _, _)
Squeeze(s, inString, escaped) ==
    IF s = <<>> THEN <<>>
    ELSE LET c == Head(s) IN
         IF inString
         THEN <<c>> \o Squeeze(Tail(s), escaped \/ c # "\"", ~escaped /\ c = "\\")
         ELSE IF c \in Whitespace THEN Squeeze(Tail(s), FALSE, FALSE)
         ELSE <<c>> \o Squeeze(Tail(s), c = "\"", FALSE)

\* The outcome of a call: returned with a value, or thrown with a message.
\* by (recorded only) is the strategy whose return statement was executed.
Returns(value, by) == [st |-> "returned", value |-> value, msg |-> "", by |-> by]
Throws(msg) == [st |-> "thrown", value |-> <<>>, msg |-> msg, by |-> 0]
NotCalled == [st |-> "none", value |-> <<>>, msg |-> "", by |-> 0]

\* A call of balanceJSON: its argument and what it returned.
Balanced(arg, value) == [st |-> "returned", arg |-> arg, value |-> value]
NotBalanced == [st |-> "none", arg |-> <<>>, value |-> <<>>]

JSONparse(s) ==
    IF IsJSON(s) THEN Returns(Squeeze(s, FALSE, FALSE), 0)
    ELSE Throws("SyntaxError")

\* One iteration of the scan of balanceJSON; the top of the stack is its
\* last element.
ScanChar(st, char) ==
    IF st.inString
    THEN IF char = "\\" THEN [st EXCEPT !.escaped = ~@]
         ELSE IF char = "\"" /\ ~st.escaped THEN [st EXCEPT !.inString = FALSE]
         ELSE [st EXCEPT !.escaped = FALSE]
    ELSE IF char = "\"" THEN [st EXCEPT !.inString = TRUE]
         ELSE IF char = "{" THEN [st EXCEPT !.stack = Append(@, "}")]
         ELSE IF char = "[" THEN [st EXCEPT !.stack = Append(@, "]")]
         ELSE IF char \in {"}", "]"}
              THEN IF Len(st.stack) > 0 /\ st.stack[Len(st.stack)] = char
                   THEN [st EXCEPT !.stack = SubSeq(@, 1, Len(@) - 1)]
                   ELSE st
         ELSE st

RECURSIVE Scan(_, _, _)
Scan(s, i, st) == IF i > Len(s) THEN st ELSE Scan(s, i + 1, ScanChar(st, s[i]))

\* Variant: the closers are appended in the order they were pushed.
PopAll_Fifo(stack) == stack

\* `while (stack.length > 0) processedString += stack.pop()`
RECURSIVE PopAll(_)
PopAll(stack) ==
    IF stack = <<>> THEN <<>>
    ELSE <<stack[Len(stack)]>> \o PopAll(SubSeq(stack, 1, Len(stack) - 1))

balanceJSON(jsonString) ==
    LET processedString == trim(jsonString)
        st == Scan(processedString, 1,
                   [stack |-> <<>>, inString |-> FALSE, escaped |-> FALSE])
    IN processedString \o (IF st.inString THEN <<"\"">> ELSE <<>>) \o PopAll(st.stack)

\* `cleaned` of cleanAndParseJSON
Cleaned(text) == trim(removeFence(removeFenceJson(text)))

cleanAndParseJSON(text) ==
    IF text = <<>> THEN Throws("Empty response text")
    ELSE
    LET direct == JSONparse(text)
        cleaned == Cleaned(text)
        unfenced == JSONparse(cleaned)
        firstOpen == indexOf(cleaned, "{")
        lastClose == lastIndexOf(cleaned, "}")
        extracted == IF firstOpen # -1 /\ lastClose # -1
                     THEN JSONparse(substring(cleaned, firstOpen, lastClose + 1))
                     ELSE Throws("")
        balanced == JSONparse(balanceJSON(cleaned))
    IN IF direct.st = "returned" THEN Returns(direct.value, 1)
       ELSE IF unfenced.st = "returned" THEN Returns(unfenced.value, 2)
       ELSE IF extracted.st = "returned" THEN Returns(extracted.value, 3)
       ELSE IF balanced.st = "returned" THEN Returns(balanced.value, 4)
       ELSE Throws("Unable to parse JSON structure from response.")

(***************************************************************************)
(* State                                                                   *)
(***************************************************************************)
VARIABLES
    activeController,   \* module variable: NoController or the id of a controller
    abortedTokens,      \* ids of the controllers whose signal is aborted
    nextToken,          \* id of the next AbortController to be constructed
    rc,                 \* SpecRetry: the activation of callGeminiWithRetry
    rcHist,             \* SpecRetry: kind of outcome of each attempt made, in order
    rcLast,             \* SpecRetry: outcome of the latest attempt
    rcCancelled,        \* SpecRetry: the phase and invocation count of rc when
                        \* its token was first aborted (at = "none": never)
    agentSwarm,         \* keys of the agentSwarm map (documents with a session)
    messages,           \* Chat state `messages`
    isProcessing,       \* Chat state `isProcessing`
    runs,               \* the activations of handleSend / submitClarificationAnswers
    nRuns,              \* number of activations started
    cur,                \* the run whose synchronous segment is executing (0: none)
    nTransient,         \* transient remote failures so far
    clarificationAnswers,   \* Chat state: question id -> selected option texts
    customInputMap,     \* Chat state: question id -> text typed into the custom slot
    parseText,          \* SpecParse: the argument of the parser functions
    parsed,             \* SpecParse: the outcome of cleanAndParseJSON(parseText)
    balancedOut,        \* SpecParse: the call of balanceJSON made by strategy 4
    swarmInit,          \* SpecRegistry: the activation of initializeAgentSwarm
    sessions,           \* values of the agentSwarm map: per document with a session,
                        \* the activation of initializeAgentSwarm that created its
                        \* chat (0: a session that exists from the start)
    latest              \* per document, the latest of: briefing succeeded, briefing
                        \* failed, removed (recorded only)

cancelVars == <<activeController, abortedTokens, nextToken>>
retryVars == <<rc, rcHist, rcLast, rcCancelled>>
formVars == <<clarificationAnswers, customInputMap>>
registryVars == <<swarmInit, sessions, latest>>
turnVars == <<agentSwarm, messages, isProcessing, runs, nRuns, cur, nTransient, formVars,
              registryVars>>
parseVars == <<parseText, parsed, balancedOut>>
\* what no step of a chat turn touches
pureVars == <<retryVars, parseVars, registryVars>>
vars == <<activeController, abortedTokens, nextToken, rc, rcHist, rcLast, rcCancelled,
          agentSwarm, messages, isProcessing, runs, nRuns, cur, nTransient,
          clarificationAnswers, customInputMap, parseText, parsed, balancedOut,
          swarmInit, sessions, latest>>

(***************************************************************************)
(* Cancellation token                                                      *)
(***************************************************************************)
\* cancelRunningAgent: abort the installed controller, then forget it.
AbortedAfterCancel(ac, ab) == IF ac # NoController THEN ab \cup {ac} ELSE ab

\* Variant: the aborted controller stays installed.
cancelRunningAgent_KeepsToken ==
    /\ abortedTokens' = AbortedAfterCancel(activeController, abortedTokens)
    /\ UNCHANGED <<activeController, nextToken>>

cancelRunningAgent ==
    /\ abortedTokens' = AbortedAfterCancel(activeController, abortedTokens)
    /\ activeController' = NoController
    /\ UNCHANGED nextToken

\* Variant: the previous controller is dropped without being aborted.
initController_NoCancel ==
    /\ abortedTokens' = abortedTokens
    /\ activeController' = nextToken
    /\ nextToken' = nextToken + 1

\* initController: cancelRunningAgent(), then install a new AbortController.
initController ==
    /\ abortedTokens' = AbortedAfterCancel(activeController, abortedTokens)
    /\ activeController' = nextToken
    /\ nextToken' = nextToken + 1

\* checkAbort throws USER_ABORTED iff activeController?.signal.aborted
checkAbort(ac, ab) == ac # NoController /\ ac \in ab

(***************************************************************************)
(* callGeminiWithRetry: one activation                                     *)
(*   phase "apiCall"  awaiting apiCall()                                   *)
(*   phase "wait"     awaiting wait(delay)                                 *)
(*   phase "returned" / "thrown": settled, result holds value or error     *)
(* invocations and delays record what the activation did.                  *)
(***************************************************************************)
NewCall(retries, baseDelay) ==
    [retries |-> retries, baseDelay |-> baseDelay, i |-> 0, phase |-> "loop",
     result |-> Ok(""), invocations |-> 0, delays |-> <<>>]

\* initializeAgentSwarm when it is not running. files[i] is the file being
\* read ("reading") or briefed ("briefing"), call the callGeminiWithRetry
\* around chat.sendMessage; n counts the activations. log records, for the
\* files of the latest activation in order, how their turn of the loop ended.
NoSwarmInit ==
    [st |-> "idle", files |-> <<>>, i |-> 0, call |-> NewCall(0, 0), n |-> 0, log |-> <<>>]

\* Loop head: `i < retries`, checkAbort(), then apiCall() is invoked.
RetryLoopHead(f, ac, ab) ==
    IF f.i < f.retries
    THEN IF checkAbort(ac, ab)
         THEN [f EXCEPT !.phase = "thrown", !.result = UserAborted]
         ELSE [f EXCEPT !.phase = "apiCall", !.invocations = @ + 1]
    ELSE [f EXCEPT !.phase = "thrown", !.result = MaxRetriesError]

\* Variant: the backoff grows linearly, baseDelay * (i + 1).
RetryOnSettle_Linear(f, o, ac, ab, jitter) ==
    IF o.ok
    THEN [f EXCEPT !.phase = "returned", !.result = o]
    ELSE IF checkAbort(ac, ab) \/ o.msg = "USER_ABORTED"
         THEN [f EXCEPT !.phase = "thrown", !.result = UserAborted]
         ELSE IF (isRateLimit(o) \/ isOverloaded(o)) /\ f.i < f.retries - 1
              THEN [f EXCEPT !.phase = "wait",
                             !.delays = Append(@, f.baseDelay * (f.i + 1) + jitter)]
              ELSE [f EXCEPT !.phase = "thrown", !.result = o]

\* Variant: the retry guard is `i < retries` (one backoff too many).
RetryOnSettle_OffByOne(f, o, ac, ab, jitter) ==
    IF o.ok
    THEN [f EXCEPT !.phase = "returned", !.result = o]
    ELSE IF checkAbort(ac, ab) \/ o.msg = "USER_ABORTED"
         THEN [f EXCEPT !.phase = "thrown", !.result = UserAborted]
         ELSE IF (isRateLimit(o) \/ isOverloaded(o)) /\ f.i < f.retries
              THEN [f EXCEPT !.phase = "wait",
                             !.delays = Append(@, f.baseDelay * Pow2(f.i) + jitter)]
              ELSE [f EXCEPT !.phase = "thrown", !.result = o]

\* apiCall() settled with outcome o: `return await apiCall()` or the catch block.
RetryOnSettle(f, o, ac, ab, jitter) ==
    IF o.ok
    THEN [f EXCEPT !.phase = "returned", !.result = o]
    ELSE IF checkAbort(ac, ab) \/ o.msg = "USER_ABORTED"
         THEN [f EXCEPT !.phase = "thrown", !.result = UserAborted]
         ELSE IF (isRateLimit(o) \/ isOverloaded(o)) /\ f.i < f.retries - 1
              THEN [f EXCEPT !.phase = "wait",
                             !.delays = Append(@, f.baseDelay * Pow2(f.i) + jitter)]
              ELSE [f EXCEPT !.phase = "thrown", !.result = o]

\* wait(delay) resolved: `continue`, i++, back to the loop head.
RetryOnWake(f, ac, ab) == RetryLoopHead([f EXCEPT !.i = @ + 1], ac, ab)

(***************************************************************************)
(* SpecRetry: callGeminiWithRetry(apiCall, retries, baseDelay) for every   *)
(* retries in 1..MaxRetries, with the remote outcomes chosen freely and    *)
(* cancelRunningAgent / initController of other handlers interleaved.      *)
(***************************************************************************)
\* "Transient" as the specification words it: rate-limit (429 / quota) or
\* service-overloaded (503 / overloaded), by status code or message.
TransientError(e) ==
    /\ ~e.ok
    /\ \/ e.status \in {429, 503}
       \/ e.msg \in {"got 429 from upstream", "quota exceeded",
                     "got 503 from upstream", "model overloaded"}

OutcomeKind(o) == IF o.ok THEN "ok" ELSE IF TransientError(o) THEN "transient" ELSE "other"

RetryInit ==
    /\ activeController = 1
    /\ abortedTokens = {}
    /\ nextToken = 2
    /\ \E n \in 1..MaxRetries, d \in BaseDelays : rc = NewCall(n, d)
    /\ rcHist = <<>>
    /\ rcLast = Ok("")
    /\ rcCancelled = [at |-> "none", inv |-> 0]
    /\ agentSwarm = {}
    /\ messages = <<>>
    /\ isProcessing = FALSE
    /\ runs = <<>>
    /\ nRuns = 0
    /\ cur = 0
    /\ nTransient = 0
    /\ clarificationAnswers = NoAnswers
    /\ customInputMap = NoCustomInput
    /\ parseText = <<>>
    /\ parsed = NotCalled
    /\ balancedOut = NotBalanced
    /\ swarmInit = NoSwarmInit
    /\ sessions = NoSessions
    /\ latest = Briefed(agentSwarm)

\* The caller enters callGeminiWithRetry and runs to its first await.
RCallEnter ==
    /\ rc.phase = "loop"
    /\ rc' = RetryLoopHead(rc, activeController, abortedTokens)
    /\ UNCHANGED <<cancelVars, rcHist, rcLast, rcCancelled, turnVars, parseVars>>

\* The remote operation resolves.
RApiResolve ==
    /\ rc.phase = "apiCall"
    /\ \E v \in Values :
         /\ rc' = RetryOnSettle(rc, Ok(v), activeController, abortedTokens, 0)
         /\ rcHist' = Append(rcHist, OutcomeKind(Ok(v)))
         /\ rcLast' = Ok(v)
    /\ UNCHANGED <<cancelVars, rcCancelled, turnVars, parseVars>>

\* The remote operation rejects.
RApiReject ==
    /\ rc.phase = "apiCall"
    /\ \E e \in RemoteErrors, j \in Jitters :
         /\ rc' = RetryOnSettle(rc, e, activeController, abortedTokens, j)
         /\ rcHist' = Append(rcHist, OutcomeKind(e))
         /\ rcLast' = e
    /\ UNCHANGED <<cancelVars, rcCancelled, turnVars, parseVars>>

\* The backoff timer fires.
RWake ==
    /\ rc.phase = "wait"
    /\ rc' = RetryOnWake(rc, activeController, abortedTokens)
    /\ UNCHANGED <<cancelVars, rcHist, rcLast, rcCancelled, turnVars, parseVars>>

\* handleStop while the call is pending.
RCancel ==
    /\ rc.phase \in {"apiCall", "wait"}
    /\ cancelRunningAgent
    /\ rcCancelled' = IF rcCancelled.at = "none" /\ activeController # NoController
                      THEN [at |-> rc.phase, inv |-> rc.invocations]
                      ELSE rcCancelled
    /\ UNCHANGED <<rc, rcHist, rcLast, turnVars, parseVars>>

\* Another top-level action starts while the call is pending.
RSupersede ==
    /\ rc.phase \in {"apiCall", "wait"}
    /\ nextToken <= MaxTokens
    /\ initController
    /\ rcCancelled' = IF rcCancelled.at = "none" /\ activeController # NoController
                      THEN [at |-> rc.phase, inv |-> rc.invocations]
                      ELSE rcCancelled
    /\ UNCHANGED <<rc, rcHist, rcLast, turnVars, parseVars>>

RetryNext == RCallEnter \/ RApiResolve \/ RApiReject \/ RWake \/ RCancel \/ RSupersede

SpecRetry == RetryInit /\ [][RetryNext]_vars

(***************************************************************************)
(* Properties of callGeminiWithRetry (checked under SpecRetry)             *)
(***************************************************************************)
AllTransient(h, n) == \A j \in 1..n : h[j] = "transient"

RcSettled == rc.phase \in {"returned", "thrown"}

\* C2: once the token has been cancelled while an attempt was in flight or
\* during a backoff delay, callGeminiWithRetry starts no further attempt and,
\* when it settles, fails with USER_ABORTED (it never returns a value).
C2_CancelWinsOverRetry ==
    rcCancelled.at # "none" =>
        /\ rc.invocations = rcCancelled.inv
        /\ RcSettled => (rc.phase = "thrown" /\ rc.result = UserAborted)

\* C6: without cancellation, k transient failures (k < retries) followed by a
\* success give: the success value returned, k + 1 invocations, k delays, the
\* i-th delay at least baseDelay * 2^i; and while only transient failures have
\* occurred and attempts remain, the call is still being retried.
C6_TransientThenSuccess ==
    rcCancelled.at = "none" =>
        LET n == Len(rcHist) IN
        /\ (n >= 1 /\ rcHist[n] = "ok" /\ AllTransient(rcHist, n - 1)) =>
              /\ rc.phase = "returned"
              /\ rc.result = rcLast
              /\ rc.invocations = n
              /\ n - 1 < rc.retries
              /\ Len(rc.delays) = n - 1
              /\ \A i \in 0..(n - 2) : rc.delays[i + 1] >= rc.baseDelay * Pow2(i)
        /\ (n >= 1 /\ n < rc.retries /\ AllTransient(rcHist, n)) =>
              /\ rc.phase \in {"wait", "apiCall"}
              /\ Len(rc.delays) = n

C6_Witness ==
    /\ rcCancelled.at = "none"
    /\ rc.phase = "returned"
    /\ Len(rcHist) = 3
    /\ AllTransient(rcHist, 2)
    /\ Len(rc.delays) = 2

\* C7: the operation is invoked at most `retries` times; when all `retries`
\* attempts fail with transient errors the last error is thrown, and no delay
\* follows the last attempt.
C7_AttemptCap ==
    /\ rc.invocations <= rc.retries
    /\ Len(rcHist) <= rc.retries
    /\ (Len(rcHist) = rc.retries /\ AllTransient(rcHist, rc.retries)) =>
          /\ rc.phase = "thrown"
          /\ rc.result = rcLast
          /\ Len(rc.delays) = rc.retries - 1

C7_Witness ==
    /\ rc.retries >= 3
    /\ Len(rcHist) = rc.retries
    /\ AllTransient(rcHist, rc.retries)
    /\ rc.phase = "thrown"

\* C8: an attempt that fails with an error that is not transient ends the
\* call at once: that error is thrown, the operation is not invoked again
\* and no delay follows.
C8_NonTransientPropagates ==
    LET n == Len(rcHist) IN
    (n >= 1 /\ rcHist[n] = "other") =>
        /\ rc.phase = "thrown"
        /\ rc.result = rcLast
        /\ rc.invocations = n
        /\ Len(rc.delays) = n - 1

C8_Witness ==
    /\ Len(rcHist) = 2
    /\ rcHist = <<"transient", "other">>
    /\ rcLast = Err(500, "internal error")
    /\ rc.phase = "thrown"

(***************************************************************************)
(* SpecParse: the parser functions applied to every text of at most MaxLen *)
(* symbols                                                                 *)
(***************************************************************************)
ParseInit ==
    /\ activeController = NoController
    /\ abortedTokens = {}
    /\ nextToken = 1
    /\ rc = NewCall(0, 0)
    /\ rcHist = <<>>
    /\ rcLast = Ok("")
    /\ rcCancelled = [at |-> "none", inv |-> 0]
    /\ agentSwarm = {}
    /\ messages = <<>>
    /\ isProcessing = FALSE
    /\ runs = <<>>
    /\ nRuns = 0
    /\ cur = 0
    /\ nTransient = 0
    /\ clarificationAnswers = NoAnswers
    /\ customInputMap = NoCustomInput
    /\ parseText \in Texts(MaxLen)
    /\ parsed = NotCalled
    /\ balancedOut = NotBalanced
    /\ swarmInit = NoSwarmInit
    /\ sessions = NoSessions
    /\ latest = Briefed(agentSwarm)

\* cleanAndParseJSON(parseText) runs; balanceJSON is called, with `cleaned`,
\* when the first three strategies have failed.
CallCleanAndParseJSON ==
    /\ parsed.st = "none"
    /\ LET r == cleanAndParseJSON(parseText)
           cleaned == Cleaned(parseText)
       IN /\ parsed' = r
          /\ balancedOut' =
                IF r.by = 4 \/ r.msg = "Unable to parse JSON structure from response."
                THEN Balanced(cleaned, balanceJSON(cleaned))
                ELSE balancedOut
    /\ UNCHANGED <<cancelVars, retryVars, turnVars, parseText>>

ParseNext == CallCleanAndParseJSON

SpecParse == ParseInit /\ [][ParseNext]_vars

(***************************************************************************)
(* The chat turn: handleSend / submitClarificationAnswers ->               *)
(* startResearchExecution -> handleExecuteWithQualityControl               *)
(***************************************************************************)
MAX_ROUNDS == 5      \* improvePlanWithCritic
MAX_RETRYS == 1      \* handleExecuteWithQualityControl


\* What an apiCall closure resolves with, as one record shape:
\* a plan (plan_type, tasks), a verdict, a clarification request
\* (flag = requires_clarification, n = questions.length) or plain text
\* (flag = the text is empty).
Payload(pt, ts, v, b, n) ==
    [plan_type |-> pt, tasks |-> ts, verdict |-> v, flag |-> b, n |-> n]

PlanPayloads ==
    { Payload("SIMPLE_FACT", <<"d1">>, "", FALSE, 0),
      Payload("DEEP_ANALYSIS", <<"d1", "d2">>, "", FALSE, 0),
      Payload("DEEP_ANALYSIS", <<>>, "", FALSE, 0) }
VerdictPayloads ==
    { Payload("", <<>>, "APPROVED", FALSE, 0), Payload("", <<>>, "REJECTED", FALSE, 0) }
ClarificationPayloads ==
    { Payload("", <<>>, "", FALSE, 0), Payload("", <<>>, "", TRUE, 0),
      Payload("", <<>>, "", TRUE, 1) }
TextPayloads == { Payload("", <<>>, "", FALSE, 0) }

\* The synthesis response: some text, or a response whose text is empty.
EmptyText == Payload("", <<>>, "", TRUE, 0)
SynthPayloads == TextPayloads \cup {EmptyText}

\* A request of two questions; SpecClarify alone lets the gate return it.
FormPayloads == { Payload("", <<>>, "", TRUE, 2) }

\* ClarificationRequest.questions of a payload with n questions: the ids,
\* kinds and options the remote model chose.
Option(text, isCustomInput) == [text |-> text, isCustomInput |-> isCustomInput]
Question(id, multiple_choice, options) ==
    [id |-> id, multiple_choice |-> multiple_choice, options |-> options]
Q1 == Question("q1", FALSE, <<Option("a", FALSE), Option("b", FALSE), Option("other", TRUE)>>)
Q2 == Question("q2", TRUE, <<Option("x", FALSE), Option("y", FALSE)>>)
Questions(n) == SubSeq(<<Q1, Q2>>, 1, n)

\* The text of the n-th query typed into the input box (pairwise distinct).
Queries == <<"query 1", "query 2", "query 3", "query 4">>
QueryText(n) == IF n \in DOMAIN Queries THEN Queries[n] ELSE "query n"

\* cleanAndParseJSON gave up / generateOrchestratorPlan got no text
ParseError == Err(0, "Unable to parse JSON structure from response.")
OrchestratorFailed == Err(0, "Orchestrator failed.")
PanelNotInitialized == Err(0, "Expert Panel not initialized")

\* The values the apiCall closure of each stage can resolve with.
StageValues(pc) ==
    CASE pc = "clarify" -> ClarificationPayloads \cup FormPayloads
      [] pc \in {"plan", "refine", "replan"} -> PlanPayloads
      [] pc \in {"review", "audit"} -> VerdictPayloads
      [] pc = "synth" -> SynthPayloads
      [] OTHER -> TextPayloads

\* The errors the apiCall closure of each stage can throw itself.
StageErrors(pc) ==
    CASE pc = "clarify" -> {ParseError}
      [] pc \in {"plan", "refine", "replan"} -> {ParseError, OrchestratorFailed}
      [] pc \in {"review", "audit"} -> {ParseError}
      [] OTHER -> {}

NoPlan == [id |-> 0, plan_type |-> "", tasks |-> <<>>]

\* ChatMessage; `by` names the activation that appended it (0: the user).
\* questions: clarification.questions; answers: the content of the text
\* submitClarificationAnswers builds (its text field reads "answers").
UserMsg == [role |-> "user", text |-> "query", plan |-> 0, clarification |-> FALSE,
            steps |-> <<>>, by |-> 0, questions |-> <<>>, answers |-> <<>>]
ModelMsg(text, clar, r) == [role |-> "model", text |-> text, plan |-> 0,
                            clarification |-> clar, steps |-> <<>>, by |-> r,
                            questions |-> <<>>, answers |-> <<>>]

updateMessagePlan(ms, idx, planId) ==
    IF idx \in DOMAIN ms THEN [ms EXCEPT ![idx].plan = planId] ELSE ms

appendCollaborationStep(ms, idx, type, round) ==
    IF idx \in DOMAIN ms
    THEN [ms EXCEPT ![idx].steps = Append(@, [type |-> type, round |-> round])]
    ELSE ms

setMessageText(ms, idx, text) ==
    IF idx \in DOMAIN ms THEN [ms EXCEPT ![idx].text = text] ELSE ms

TerminalPcs == {"paused", "done", "stopped", "failed"}
CallPcs == {"clarify", "plan", "review", "refine", "synth", "audit", "replan"}

\* The query text an activation works on: orig is the text of the query,
\* block the serialized answers appended under [USER CLARIFICATIONS].
Query(orig, clarified, block) == [orig |-> orig, clarified |-> clarified, block |-> block]

\* One activation. histLen = currentHistory.length; idx = placeholderIndex + 1.
\* query is initialQuery / userQuery; resumes (recorded only) is the activation
\* whose clarification request this one answers.
\* nPlans, approved, reviews, stopped, superseded, sawAbort, late*, execs,
\* verdicts, boardPlan, remedyPlan only record what happened: no step reads
\* them. execs counts the calls of executeOrchestratorPlan, verdicts lists the
\* audit verdicts, boardPlan is the plan last passed to improvePlanWithCritic,
\* remedyPlan the plan createCollaborativePlan returned for a rejected report.
NewRun(histLen) ==
    [pc |-> "start", histLen |-> histLen, idx |-> 0, call |-> NewCall(0, 0),
     query |-> Query("", FALSE, <<>>), resumes |-> 0,
     plan |-> NoPlan, round |-> 0, attempt |-> 0, tasks |-> <<>>, err |-> Err(0, ""),
     content |-> "",
     nPlans |-> 0, approved |-> 0, reviews |-> 0,
     execs |-> 0, verdicts |-> <<>>, boardPlan |-> 0, remedyPlan |-> 0,
     stopped |-> FALSE, superseded |-> FALSE, sawAbort |-> FALSE,
     lateCall |-> FALSE, lateCallS |-> FALSE, lateWrite |-> FALSE]

InFlight(run) == run.pc \notin TerminalPcs

\* Run r installed a new controller: every other run in flight is stale.
Supersede(rs, r) ==
    [q \in DOMAIN rs |->
        IF q # r /\ InFlight(rs[q]) THEN [rs[q] EXCEPT !.superseded = TRUE] ELSE rs[q]]

Issued(run) == [run EXCEPT !.lateCall = @ \/ run.stopped, !.lateCallS = @ \/ run.superseded]
Wrote(run) == [run EXCEPT !.lateWrite = @ \/ run.superseded]

\* checkAbort(), then callGeminiWithRetry(apiCall, retries, baseDelay) up to
\* its first await.
EnterCall(retries, baseDelay, ac, ab) ==
    IF checkAbort(ac, ab)
    THEN [NewCall(retries, baseDelay) EXCEPT !.phase = "thrown", !.result = UserAborted]
    ELSE RetryLoopHead(NewCall(retries, baseDelay), ac, ab)

StartCall(run, pc, retries, baseDelay, ac, ab) ==
    LET f == EnterCall(retries, baseDelay, ac, ab)
        nr == [run EXCEPT !.pc = pc, !.call = f]
    IN IF f.phase = "apiCall" THEN Issued(nr) ELSE nr

Throw(run, e) == [run EXCEPT !.pc = "catch", !.err = e]

TaskPending(t) == t.st = "pending"

\* The segment ends when the run awaits something or has finished.
Yields(run) ==
    \/ run.pc \in TerminalPcs
    \/ run.pc \in CallPcs /\ run.call.phase \in {"apiCall", "wait"}
    \/ run.pc = "tasks"

NextCur(r, run) == IF Yields(run) THEN 0 ELSE r

\* USER_ABORTED has been raised in the run: by a sequential call or by a task.
RaisedAbort(run) ==
    \/ run.call.phase = "thrown" /\ run.call.result.msg = "USER_ABORTED"
    \/ \E k \in DOMAIN run.tasks : run.tasks[k].st = "rejected"

\* Locals that are out of scope are forgotten: the activation of a call that
\* has been consumed, the error once caught, the task results after synthesis.
\* The lengths of the backoff delays, which nothing in a turn reads, are not
\* kept either (SpecRetry keeps them).
Norm(run) ==
    LET pending == \E k \in DOMAIN run.tasks : run.tasks[k].st = "pending" IN
    [run EXCEPT
       !.sawAbort = @ \/ RaisedAbort(run),
       !.call = IF run.pc \in CallPcs THEN [@ EXCEPT !.delays = <<>>] ELSE NewCall(0, 0),
       !.err = IF run.pc = "catch" THEN @ ELSE Err(0, ""),
       !.content = IF run.pc = "audit" THEN @ ELSE "",
       !.tasks = IF run.pc \in {"tasks", "synth"} \/ pending
                 THEN [k \in DOMAIN @ |->
                         IF @[k].st = "pending" THEN [@[k] EXCEPT !.call.delays = <<>>]
                         ELSE [@[k] EXCEPT !.call = NewCall(0, 0)]]
                 ELSE <<>>]

PutRun(rs, r, run) ==
    /\ runs' = [rs EXCEPT ![r] = Norm(run)]
    /\ cur' = NextCur(r, run)

Init ==
    /\ activeController = NoController
    /\ abortedTokens = {}
    /\ nextToken = 1
    /\ rc = NewCall(0, 0)
    /\ rcHist = <<>>
    /\ rcLast = Ok("")
    /\ rcCancelled = [at |-> "none", inv |-> 0]
    /\ agentSwarm = Docs
    /\ messages = <<>>
    /\ isProcessing = FALSE
    /\ runs = <<>>
    /\ nRuns = 0
    /\ cur = 0
    /\ nTransient = 0
    /\ clarificationAnswers = NoAnswers
    /\ customInputMap = NoCustomInput
    /\ parseText = <<>>
    /\ parsed = NotCalled
    /\ balancedOut = NotBalanced
    /\ swarmInit = NoSwarmInit
    /\ sessions = NoSessions
    /\ latest = Briefed(agentSwarm)

\* handleSend up to the await of generateClarificationQuestions.
\* activeAgents follows getSwarmStatus(); the input text is not modelled.
handleSend ==
    /\ cur = 0
    /\ ~isProcessing
    /\ agentSwarm # {}
    /\ nRuns < MaxRuns
    /\ initController
    /\ LET r == nRuns + 1
           ms == Append(messages, [UserMsg EXCEPT !.text = QueryText(r)])
           run == StartCall([NewRun(Len(ms)) EXCEPT
                                !.query = Query(QueryText(r), FALSE, <<>>)],
                            "clarify", 3, 2000,
                            activeController', abortedTokens')
       IN /\ messages' = ms
          /\ isProcessing' = TRUE
          /\ nRuns' = r
          /\ runs' = Append(Supersede(runs, r), Norm(run))
          /\ cur' = NextCur(r, run)
    /\ UNCHANGED <<pureVars, formVars, agentSwarm, nTransient>>

Includes(seq, x) == \E j \in DOMAIN seq : seq[j] = x

\* Variant: a single-choice question appends like a multi-select one.
handleOptionToggle_Append(m, i, o) ==
    /\ cur = 0
    /\ m \in DOMAIN messages /\ messages[m].clarification
    /\ i \in DOMAIN messages[m].questions
    /\ o \in DOMAIN messages[m].questions[i].options
    /\ LET q == messages[m].questions[i]
           opt == q.options[o]
           existing == clarificationAnswers[q.id]
           Other(t) == t # opt.text
       IN /\ clarificationAnswers' = [clarificationAnswers EXCEPT ![q.id] =
                 IF Includes(existing, opt.text) THEN SelectSeq(existing, Other)
                 ELSE Append(existing, opt.text)]
          /\ customInputMap' = IF ~q.multiple_choice /\ ~opt.isCustomInput
                               THEN [customInputMap EXCEPT ![q.id] = ""]
                               ELSE customInputMap
    /\ UNCHANGED <<cancelVars, pureVars, agentSwarm, messages, isProcessing, runs, nRuns,
                   cur, nTransient>>

\* handleOptionToggle(q.id, opt.text, q.multiple_choice, !!opt.isCustomInput):
\* a click on option o of question i of the request shown in message m.
handleOptionToggle(m, i, o) ==
    /\ cur = 0
    /\ m \in DOMAIN messages /\ messages[m].clarification
    /\ i \in DOMAIN messages[m].questions
    /\ o \in DOMAIN messages[m].questions[i].options
    /\ LET q == messages[m].questions[i]
           opt == q.options[o]
           existing == clarificationAnswers[q.id]
           Other(t) == t # opt.text
       IN /\ clarificationAnswers' = [clarificationAnswers EXCEPT ![q.id] =
                 IF q.multiple_choice
                 THEN IF Includes(existing, opt.text) THEN SelectSeq(existing, Other)
                      ELSE Append(existing, opt.text)
                 ELSE <<opt.text>>]
          /\ customInputMap' = IF ~q.multiple_choice /\ ~opt.isCustomInput
                               THEN [customInputMap EXCEPT ![q.id] = ""]
                               ELSE customInputMap
    /\ UNCHANGED <<cancelVars, pureVars, agentSwarm, messages, isProcessing, runs, nRuns,
                   cur, nTransient>>

\* onChange of the custom input field, rendered while a custom option of the
\* question is selected.
setCustomInput(m, i) ==
    /\ cur = 0
    /\ m \in DOMAIN messages /\ messages[m].clarification
    /\ i \in DOMAIN messages[m].questions
    /\ LET q == messages[m].questions[i] IN
          /\ \E o \in DOMAIN q.options :
                q.options[o].isCustomInput /\ Includes(clarificationAnswers[q.id], q.options[o].text)
          /\ customInputMap[q.id] = ""
          /\ customInputMap' = [customInputMap EXCEPT ![q.id] = "typed"]
    /\ UNCHANGED <<cancelVars, pureVars, agentSwarm, messages, isProcessing, runs, nRuns,
                   cur, nTransient, clarificationAnswers>>

\* The `disabled` attribute of the Start Research button of message m, negated.
SubmitEnabled(m) ==
    Cardinality({k \in QuestionIds : Len(clarificationAnswers[k]) > 0})
        >= Len(messages[m].questions)

\* combinedResponse: per question with a selection, its id and final answers.
FinalAnswers(q) ==
    LET sel == clarificationAnswers[q.id]
        IsCustom(t) == \E o \in DOMAIN q.options : q.options[o].text = t /\ q.options[o].isCustomInput
    IN [j \in DOMAIN sel |->
          IF IsCustom(sel[j]) /\ customInputMap[q.id] # "" THEN "Custom" ELSE sel[j]]

CombinedResponse(qs) ==
    LET all == [i \in DOMAIN qs |-> [q |-> qs[i].id, answers |-> FinalAnswers(qs[i])]]
        Answered(a) == a.answers # <<>>
    IN SelectSeq(all, Answered)

\* messages[messages.length - 2], if it is a user message
OriginalQuery ==
    IF Len(messages) >= 2 /\ messages[Len(messages) - 1].role = "user"
    THEN messages[Len(messages) - 1].text ELSE ""

\* submitClarificationAnswers(msg.clarification), the Start Research button of
\* message m; runs into startResearchExecution.
submitClarificationAnswers ==
    /\ cur = 0
    /\ nRuns < MaxRuns
    /\ \E m \in DOMAIN messages :
         /\ messages[m].clarification
         /\ SubmitEnabled(m)
         /\ LET r == nRuns + 1
                combined == CombinedResponse(messages[m].questions)
                ms == Append(messages, [UserMsg EXCEPT !.text = "answers", !.answers = combined])
            IN /\ messages' = ms
               /\ runs' = Append(runs, [NewRun(Len(ms)) EXCEPT
                                           !.query = Query(OriginalQuery, TRUE, combined),
                                           !.resumes = messages[m].by])
               /\ nRuns' = r
               /\ cur' = r
    /\ isProcessing' = TRUE
    /\ clarificationAnswers' = NoAnswers
    /\ customInputMap' = NoCustomInput
    /\ UNCHANGED <<cancelVars, pureVars, agentSwarm, nTransient>>

\* handleStop (the stop button is rendered while isProcessing).
handleStop ==
    /\ cur = 0
    /\ isProcessing
    /\ cancelRunningAgent
    /\ isProcessing' = FALSE
    /\ messages' =
         LET last == messages[Len(messages)] IN
         IF last.role = "model" /\ last.text = "" /\ last.plan = 0 /\ ~last.clarification
         THEN SubSeq(messages, 1, Len(messages) - 1)
         ELSE messages
    /\ runs' = [q \in DOMAIN runs |->
                  IF InFlight(runs[q]) THEN [runs[q] EXCEPT !.stopped = TRUE] ELSE runs[q]]
    /\ UNCHANGED <<pureVars, formVars, agentSwarm, nRuns, cur, nTransient>>

\* App.handleRemoveFile -> removeAgent(fileName)
removeAgent ==
    /\ cur = 0
    /\ \E d \in agentSwarm :
         /\ agentSwarm' = agentSwarm \ {d}
         /\ sessions' = [sessions EXCEPT ![d] = 0]
         /\ latest' = [latest EXCEPT ![d] = "removed"]
    /\ UNCHANGED <<cancelVars, retryVars, parseVars, swarmInit, formVars, messages,
                   isProcessing, runs, nRuns, cur, nTransient>>

(***************************************************************************)
(* Remote events of a sequential call (pc in CallPcs)                      *)
(***************************************************************************)
SetRun(r, run) == PutRun(runs, r, run)

\* The apiCall closure of run r resolves with one of the values V allows.
ApiResolveWith(r, V) ==
    /\ cur = 0
    /\ r \in DOMAIN runs
    /\ runs[r].pc \in CallPcs
    /\ runs[r].call.phase = "apiCall"
    /\ \E v \in StageValues(runs[r].pc) \cap V :
         SetRun(r, [runs[r] EXCEPT !.call =
                      RetryOnSettle(@, Ok(v), activeController, abortedTokens, 0)])
    /\ UNCHANGED <<cancelVars, pureVars, formVars, agentSwarm, messages, isProcessing, nRuns, nTransient>>

AllPayloads ==
    PlanPayloads \cup VerdictPayloads \cup ClarificationPayloads \cup SynthPayloads

ApiResolve(r) == ApiResolveWith(r, AllPayloads)

\* The apiCall closure of run r throws: a remote rejection or its own error.
ApiReject(r) ==
    /\ cur = 0
    /\ r \in DOMAIN runs
    /\ runs[r].pc \in CallPcs
    /\ runs[r].call.phase = "apiCall"
    /\ \E e \in RemoteErrors \cup StageErrors(runs[r].pc), j \in Jitters :
         LET f == RetryOnSettle(runs[r].call, e, activeController, abortedTokens, j) IN
         /\ f.phase = "wait" => nTransient < MaxTransient
         /\ nTransient' = IF f.phase = "wait" THEN nTransient + 1 ELSE nTransient
         /\ SetRun(r, [runs[r] EXCEPT !.call = f])
    /\ UNCHANGED <<cancelVars, pureVars, formVars, agentSwarm, messages, isProcessing, nRuns>>

\* The backoff timer of run r fires.
ApiWake(r) ==
    /\ cur = 0
    /\ r \in DOMAIN runs
    /\ runs[r].pc \in CallPcs
    /\ runs[r].call.phase = "wait"
    /\ LET f == RetryOnWake(runs[r].call, activeController, abortedTokens)
           run == [runs[r] EXCEPT !.call = f]
       IN SetRun(r, IF f.phase = "apiCall" THEN Issued(run) ELSE run)
    /\ UNCHANGED <<cancelVars, pureVars, formVars, agentSwarm, messages, isProcessing, nRuns, nTransient>>

Settled(r, pc) ==
    /\ cur = r
    /\ runs[r].pc = pc
    /\ runs[r].call.phase \in {"returned", "thrown"}

Returned(r) == runs[r].call.phase = "returned"
Value(r) == runs[r].call.result.value

(***************************************************************************)
(* handleSend after generateClarificationQuestions                         *)
(***************************************************************************)
AfterClarify(r) ==
    /\ Settled(r, "clarify")
    /\ IF ~Returned(r)
       THEN \* catch of handleSend
            /\ messages' = Append(messages, ModelMsg("Error initializing request.", FALSE, r))
            /\ isProcessing' = FALSE
            /\ SetRun(r, Wrote([runs[r] EXCEPT !.pc = "failed"]))
       ELSE IF Value(r).flag /\ Value(r).n > 0
       THEN /\ messages' = Append(messages, [ModelMsg("", TRUE, r) EXCEPT
                                                !.questions = Questions(Value(r).n)])
            /\ isProcessing' = FALSE
            /\ SetRun(r, Wrote([runs[r] EXCEPT !.pc = "paused"]))
       ELSE /\ SetRun(r, [runs[r] EXCEPT !.pc = "start"])
            /\ UNCHANGED <<messages, isProcessing>>
    /\ UNCHANGED <<cancelVars, pureVars, formVars, agentSwarm, nRuns, nTransient>>

(***************************************************************************)
(* startResearchExecution                                                  *)
(***************************************************************************)
\* createCollaborativePlan up to the await of generateOrchestratorPlan;
\* callers conjoin initController.
CreatePlanEnter(run, pc) ==
    IF agentSwarm = {}
    THEN Throw(run, PanelNotInitialized)
    ELSE StartCall(run, pc, 4, 3000, activeController', abortedTokens')

\* The placeholder message, then createCollaborativePlan.
StartResearch(r) ==
    /\ cur = r
    /\ runs[r].pc = "start"
    /\ initController
    /\ messages' = Append(messages, ModelMsg("", FALSE, r))
    /\ LET run == Wrote([runs[r] EXCEPT !.idx = runs[r].histLen + 1])
       IN PutRun(Supersede(runs, r), r, CreatePlanEnter(run, "plan"))
    /\ UNCHANGED <<pureVars, formVars, agentSwarm, isProcessing, nRuns, nTransient>>

PlanOf(run, v) == [id |-> run.nPlans + 1, plan_type |-> v.plan_type, tasks |-> v.tasks]

\* Variant: the review decision looks at plan_type alone.
AfterPlan_ReviewAny(r) ==
    /\ Settled(r, "plan")
    /\ IF ~Returned(r)
       THEN /\ SetRun(r, Throw(runs[r], runs[r].call.result))
            /\ UNCHANGED messages
       ELSE LET plan == PlanOf(runs[r], Value(r))
                idx == runs[r].idx
            IN /\ messages' = updateMessagePlan(
                                 appendCollaborationStep(messages, idx, "ORCHESTRATOR", 0),
                                 idx, plan.id)
               /\ SetRun(r, Wrote([runs[r] EXCEPT
                       !.plan = plan, !.nPlans = plan.id,
                       !.pc = IF plan.plan_type = "DEEP_ANALYSIS"
                              THEN "improve" ELSE "execute"]))
    /\ UNCHANGED <<cancelVars, pureVars, formVars, agentSwarm, isProcessing, nRuns, nTransient>>

\* createCollaborativePlan returns; the review decision of startResearchExecution.
AfterPlan(r) ==
    /\ Settled(r, "plan")
    /\ IF ~Returned(r)
       THEN /\ SetRun(r, Throw(runs[r], runs[r].call.result))
            /\ UNCHANGED messages
       ELSE LET plan == PlanOf(runs[r], Value(r))
                idx == runs[r].idx
            IN /\ messages' = updateMessagePlan(
                                 appendCollaborationStep(messages, idx, "ORCHESTRATOR", 0),
                                 idx, plan.id)
               /\ SetRun(r, Wrote([runs[r] EXCEPT
                       !.plan = plan, !.nPlans = plan.id,
                       !.pc = IF plan.plan_type = "DEEP_ANALYSIS" /\ Len(plan.tasks) > 0
                              THEN "improve" ELSE "execute"]))
    /\ UNCHANGED <<cancelVars, pureVars, formVars, agentSwarm, isProcessing, nRuns, nTransient>>

\* Entry of improvePlanWithCritic and round 1 up to the await of runExecutiveBoard.
ImprovePlan(r) ==
    /\ cur = r
    /\ runs[r].pc = "improve"
    /\ initController
    /\ LET run == StartCall([runs[r] EXCEPT !.round = 1, !.reviews = 1, !.approved = 0,
                                             !.boardPlan = runs[r].plan.id],
                            "review", 3, 2000, activeController', abortedTokens')
       IN PutRun(Supersede(runs, r), r, run)
    /\ UNCHANGED <<pureVars, formVars, agentSwarm, messages, isProcessing, nRuns, nTransient>>

\* Variant: no `break` on APPROVED, the plan is refined all the same.
AfterReview_NoBreak(r) ==
    /\ Settled(r, "review")
    /\ IF ~Returned(r)
       THEN /\ SetRun(r, Throw(runs[r], runs[r].call.result))
            /\ UNCHANGED messages
       ELSE LET idx == runs[r].idx
                ms == appendCollaborationStep(messages, idx, "CRITIC", runs[r].round)
                run == IF Value(r).verdict = "APPROVED"
                       THEN [runs[r] EXCEPT !.approved = runs[r].plan.id]
                       ELSE runs[r]
            IN /\ messages' = ms
               /\ SetRun(r, StartCall(Wrote(run), "refine", 4, 3000,
                                      activeController, abortedTokens))
    /\ UNCHANGED <<cancelVars, pureVars, formVars, agentSwarm, isProcessing, nRuns, nTransient>>

\* Variant: a rejection in the last round is not followed by a refinement.
AfterReview_NoLastRefine(r) ==
    /\ Settled(r, "review")
    /\ IF ~Returned(r)
       THEN /\ SetRun(r, Throw(runs[r], runs[r].call.result))
            /\ UNCHANGED messages
       ELSE LET idx == runs[r].idx
                ms == appendCollaborationStep(messages, idx, "CRITIC", runs[r].round)
            IN IF Value(r).verdict = "APPROVED"
               THEN /\ messages' = updateMessagePlan(ms, idx, runs[r].plan.id)
                    /\ SetRun(r, Wrote([runs[r] EXCEPT !.approved = runs[r].plan.id,
                                                       !.pc = "execute"]))
               ELSE IF runs[r].round = MAX_ROUNDS
               THEN /\ messages' = updateMessagePlan(ms, idx, runs[r].plan.id)
                    /\ SetRun(r, Wrote([runs[r] EXCEPT !.pc = "execute"]))
               ELSE /\ messages' = ms
                    /\ SetRun(r, StartCall(Wrote(runs[r]), "refine", 4, 3000,
                                           activeController, abortedTokens))
    /\ UNCHANGED <<cancelVars, pureVars, formVars, agentSwarm, isProcessing, nRuns, nTransient>>

\* runExecutiveBoard returned: record the verdict, break or refine.
AfterReview(r) ==
    /\ Settled(r, "review")
    /\ IF ~Returned(r)
       THEN /\ SetRun(r, Throw(runs[r], runs[r].call.result))
            /\ UNCHANGED messages
       ELSE LET idx == runs[r].idx
                ms == appendCollaborationStep(messages, idx, "CRITIC", runs[r].round)
            IN IF Value(r).verdict = "APPROVED"
               THEN /\ messages' = updateMessagePlan(ms, idx, runs[r].plan.id)
                    /\ SetRun(r, Wrote([runs[r] EXCEPT !.approved = runs[r].plan.id,
                                                       !.pc = "execute"]))
               ELSE /\ messages' = ms
                    /\ SetRun(r, StartCall(Wrote(runs[r]), "refine", 4, 3000,
                                           activeController, abortedTokens))
    /\ UNCHANGED <<cancelVars, pureVars, formVars, agentSwarm, isProcessing, nRuns, nTransient>>

\* Variant: the loop guard is `i <= MAX_ROUNDS + 1`.
AfterRefine_ExtraRound(r) ==
    /\ Settled(r, "refine")
    /\ IF ~Returned(r)
       THEN /\ SetRun(r, Throw(runs[r], runs[r].call.result))
            /\ UNCHANGED messages
       ELSE LET plan == PlanOf(runs[r], Value(r))
                idx == runs[r].idx
                ms == appendCollaborationStep(messages, idx, "ORCHESTRATOR", runs[r].round)
                run == Wrote([runs[r] EXCEPT !.plan = plan, !.nPlans = plan.id,
                                             !.round = @ + 1])
            IN IF run.round <= MAX_ROUNDS + 1
               THEN /\ messages' = ms
                    /\ SetRun(r, StartCall([run EXCEPT !.reviews = @ + 1], "review", 3, 2000,
                                           activeController, abortedTokens))
               ELSE /\ messages' = updateMessagePlan(ms, idx, plan.id)
                    /\ SetRun(r, [run EXCEPT !.pc = "execute"])
    /\ UNCHANGED <<cancelVars, pureVars, formVars, agentSwarm, isProcessing, nRuns, nTransient>>

\* generateOrchestratorPlan(refinementPrompt) returned: next round or return.
AfterRefine(r) ==
    /\ Settled(r, "refine")
    /\ IF ~Returned(r)
       THEN /\ SetRun(r, Throw(runs[r], runs[r].call.result))
            /\ UNCHANGED messages
       ELSE LET plan == PlanOf(runs[r], Value(r))
                idx == runs[r].idx
                ms == appendCollaborationStep(messages, idx, "ORCHESTRATOR", runs[r].round)
                run == Wrote([runs[r] EXCEPT !.plan = plan, !.nPlans = plan.id,
                                             !.round = @ + 1])
            IN IF run.round <= MAX_ROUNDS
               THEN /\ messages' = ms
                    /\ SetRun(r, StartCall([run EXCEPT !.reviews = @ + 1], "review", 3, 2000,
                                           activeController, abortedTokens))
               ELSE /\ messages' = updateMessagePlan(ms, idx, plan.id)
                    /\ SetRun(r, [run EXCEPT !.pc = "execute"])
    /\ UNCHANGED <<cancelVars, pureVars, formVars, agentSwarm, isProcessing, nRuns, nTransient>>

(***************************************************************************)
(* handleExecuteWithQualityControl / executeOrchestratorPlan               *)
(***************************************************************************)
\* One task of the fan-out: the async callback of allTasks.map up to its
\* first await (st: "pending", "fulfilled" or "rejected"). cause only
\* records why the task ended.
Task(doc, st, response, f, cause) ==
    [doc |-> doc, st |-> st, response |-> response, call |-> f, cause |-> cause]

DispatchTask(doc, ac, ab) ==
    IF checkAbort(ac, ab)
    THEN Task(doc, "rejected", "USER_ABORTED", NewCall(3, 2000), "abort")
    ELSE IF doc \notin agentSwarm
    THEN Task(doc, "fulfilled", "Error: Expert not assigned.", NewCall(3, 2000), "unassigned")
    ELSE LET f == RetryLoopHead(NewCall(3, 2000), ac, ab) IN
         IF f.phase = "thrown"
         THEN Task(doc, "rejected", "USER_ABORTED", f, "abort")
         ELSE Task(doc, "pending", "", f, "")

\* Variant: the catch of the task callback rethrows every error.
SettleTask_Fatal(t, f, ac, ab) ==
    CASE f.phase = "returned" ->
           IF checkAbort(ac, ab)
           THEN Task(t.doc, "rejected", "USER_ABORTED", f, "abort")
           ELSE Task(t.doc, "fulfilled", "answer", f, "")
      [] f.phase = "thrown" ->
           IF f.result.msg = "USER_ABORTED"
           THEN Task(t.doc, "rejected", "USER_ABORTED", f, "abort")
           ELSE Task(t.doc, "rejected", "Error: Retrieval failed.", f, "remote")
      [] OTHER -> [t EXCEPT !.call = f]

\* The task callback after callGeminiWithRetry settled (frame f).
SettleTask(t, f, ac, ab) ==
    CASE f.phase = "returned" ->
           IF checkAbort(ac, ab)
           THEN Task(t.doc, "rejected", "USER_ABORTED", f, "abort")
           ELSE Task(t.doc, "fulfilled", "answer", f, "")
      [] f.phase = "thrown" ->
           IF f.result.msg = "USER_ABORTED"
           THEN Task(t.doc, "rejected", "USER_ABORTED", f, "abort")
           ELSE Task(t.doc, "fulfilled", "Error: Retrieval failed.", f, "remote")
      [] OTHER -> [t EXCEPT !.call = f]

AnyRejected(ts) == \E k \in DOMAIN ts : ts[k].st = "rejected"
\* Variant: the join of an empty task list never settles.
AllFulfilled_Some(ts) == \E k \in DOMAIN ts : ts[k].st = "fulfilled"
AllFulfilled(ts) == \A k \in DOMAIN ts : ts[k].st = "fulfilled"

\* Variant: the join settles with the first task that is fulfilled.
AwaitTasks_Any(run, ac, ab) ==
    IF AnyRejected(run.tasks) THEN Throw(run, UserAborted)
    ELSE IF run.tasks = <<>> \/ \E k \in DOMAIN run.tasks : run.tasks[k].st = "fulfilled"
    THEN StartCall(run, "synth", 3, 5000, ac, ab)
    ELSE [run EXCEPT !.pc = "tasks"]

\* Promise.all(taskPromises) and what follows it: the first rejection is
\* thrown; once every task is fulfilled, checkAbort() and the synthesis call.
AwaitTasks(run, ac, ab) ==
    IF AnyRejected(run.tasks) THEN Throw(run, UserAborted)
    ELSE IF AllFulfilled(run.tasks) THEN StartCall(run, "synth", 3, 5000, ac, ab)
    ELSE [run EXCEPT !.pc = "tasks"]

\* executeOrchestratorPlan(currentPlan) up to its first await.
Execute(r) ==
    /\ cur = r
    /\ runs[r].pc = "execute"
    /\ initController
    /\ LET allTasks == runs[r].plan.tasks
           ts == [k \in DOMAIN allTasks |->
                    DispatchTask(allTasks[k], activeController', abortedTokens')]
           issued == \E k \in DOMAIN ts : ts[k].st = "pending"
           r0 == [runs[r] EXCEPT !.tasks = ts, !.execs = @ + 1]
           r1 == IF issued THEN Issued(r0) ELSE r0
           run == AwaitTasks(r1, activeController', abortedTokens')
       IN PutRun(Supersede(runs, r), r, run)
    /\ UNCHANGED <<pureVars, formVars, agentSwarm, messages, isProcessing, nRuns, nTransient>>

\* A task's callGeminiWithRetry settles or moves on; if the run is awaiting
\* Promise.all, the join is re-evaluated.
TaskStep(r, k, f) ==
    LET t == SettleTask(runs[r].tasks[k], f, activeController, abortedTokens)
        r0 == [runs[r] EXCEPT !.tasks[k] = t]
        r1 == IF f.phase = "apiCall" /\ runs[r].tasks[k].call.phase = "wait"
              THEN Issued(r0) ELSE r0
        run == IF runs[r].pc = "tasks"
               THEN AwaitTasks(r1, activeController, abortedTokens) ELSE r1
    IN SetRun(r, run)

TaskResolve(r, k) ==
    /\ cur = 0
    /\ r \in DOMAIN runs
    /\ k \in DOMAIN runs[r].tasks
    /\ runs[r].tasks[k].st = "pending"
    /\ runs[r].tasks[k].call.phase = "apiCall"
    /\ \E v \in TextPayloads :
         TaskStep(r, k, RetryOnSettle(runs[r].tasks[k].call, Ok(v),
                                     activeController, abortedTokens, 0))
    /\ UNCHANGED <<cancelVars, pureVars, formVars, agentSwarm, messages, isProcessing, nRuns, nTransient>>

TaskReject(r, k) ==
    /\ cur = 0
    /\ r \in DOMAIN runs
    /\ k \in DOMAIN runs[r].tasks
    /\ runs[r].tasks[k].st = "pending"
    /\ runs[r].tasks[k].call.phase = "apiCall"
    /\ \E e \in RemoteErrors, j \in Jitters :
         LET f == RetryOnSettle(runs[r].tasks[k].call, e,
                                activeController, abortedTokens, j) IN
         /\ f.phase = "wait" => nTransient < MaxTransient
         /\ nTransient' = IF f.phase = "wait" THEN nTransient + 1 ELSE nTransient
         /\ TaskStep(r, k, f)
    /\ UNCHANGED <<cancelVars, pureVars, formVars, agentSwarm, messages, isProcessing, nRuns>>

TaskWake(r, k) ==
    /\ cur = 0
    /\ r \in DOMAIN runs
    /\ k \in DOMAIN runs[r].tasks
    /\ runs[r].tasks[k].st = "pending"
    /\ runs[r].tasks[k].call.phase = "wait"
    /\ TaskStep(r, k, RetryOnWake(runs[r].tasks[k].call, activeController, abortedTokens))
    /\ UNCHANGED <<cancelVars, pureVars, formVars, agentSwarm, messages, isProcessing, nRuns, nTransient>>

\* The report is written into the placeholder; finally of startResearchExecution.
Finish(run) == Wrote([run EXCEPT !.pc = "done"])

\* content of executeOrchestratorPlan's result: `coordinator.text ||
\* "Synthesis failed."` without its <thinking> block.
Content(v) == IF v.flag THEN "Synthesis failed." ELSE "report"

\* Variant: every report is audited.
AfterSynth_AuditAll(r) ==
    /\ Settled(r, "synth")
    /\ IF ~Returned(r)
       THEN SetRun(r, Throw(runs[r], runs[r].call.result))
       ELSE SetRun(r, StartCall([runs[r] EXCEPT !.content = Content(Value(r))],
                                "audit", 3, 2000, activeController, abortedTokens))
    /\ UNCHANGED <<cancelVars, pureVars, formVars, agentSwarm, messages, isProcessing, nRuns,
                   nTransient>>

\* The synthesis call returned: audit, or write the report.
AfterSynth(r) ==
    /\ Settled(r, "synth")
    /\ IF ~Returned(r)
       THEN /\ SetRun(r, Throw(runs[r], runs[r].call.result))
            /\ UNCHANGED <<messages, isProcessing>>
       ELSE IF runs[r].plan.plan_type = "DEEP_ANALYSIS" \/ runs[r].attempt > 0
       THEN /\ SetRun(r, StartCall([runs[r] EXCEPT !.content = Content(Value(r))],
                                   "audit", 3, 2000, activeController, abortedTokens))
            /\ UNCHANGED <<messages, isProcessing>>
       ELSE /\ messages' = setMessageText(messages, runs[r].idx, Content(Value(r)))
            /\ isProcessing' = FALSE
            /\ SetRun(r, Finish(runs[r]))
    /\ UNCHANGED <<cancelVars, pureVars, formVars, agentSwarm, nRuns, nTransient>>

\* Variant: the budget test is `attempt <= MAX_RETRYS`.
AfterAudit_NoBudget(r) ==
    /\ Settled(r, "audit")
    /\ IF ~Returned(r)
       THEN /\ SetRun(r, Throw(runs[r], runs[r].call.result))
            /\ UNCHANGED <<cancelVars, messages, isProcessing>>
       ELSE LET idx == runs[r].idx
                ms == appendCollaborationStep(messages, idx, "BOARD_REVIEW",
                                              runs[r].attempt + 1)
                run == [runs[r] EXCEPT !.verdicts = Append(@, Value(r).verdict)]
            IN IF Value(r).verdict = "REJECTED" /\ runs[r].attempt <= MAX_RETRYS
               THEN /\ initController
                    /\ messages' = ms
                    /\ PutRun(Supersede(runs, r), r,
                              CreatePlanEnter(Wrote(run), "replan"))
                    /\ UNCHANGED isProcessing
               ELSE /\ messages' = setMessageText(ms, idx, runs[r].content)
                    /\ isProcessing' = FALSE
                    /\ SetRun(r, Finish(run))
                    /\ UNCHANGED cancelVars
    /\ UNCHANGED <<pureVars, formVars, agentSwarm, nRuns, nTransient>>

\* reviewOutputWithBoard returned: one remediation re-plan, or the report.
AfterAudit(r) ==
    /\ Settled(r, "audit")
    /\ IF ~Returned(r)
       THEN /\ SetRun(r, Throw(runs[r], runs[r].call.result))
            /\ UNCHANGED <<cancelVars, messages, isProcessing>>
       ELSE LET idx == runs[r].idx
                ms == appendCollaborationStep(messages, idx, "BOARD_REVIEW",
                                              runs[r].attempt + 1)
                run == [runs[r] EXCEPT !.verdicts = Append(@, Value(r).verdict)]
            IN IF Value(r).verdict = "REJECTED" /\ runs[r].attempt < MAX_RETRYS
               THEN /\ initController
                    /\ messages' = ms
                    /\ PutRun(Supersede(runs, r), r,
                              CreatePlanEnter(Wrote(run), "replan"))
                    /\ UNCHANGED isProcessing
               ELSE /\ messages' = setMessageText(ms, idx, runs[r].content)
                    /\ isProcessing' = FALSE
                    /\ SetRun(r, Finish(run))
                    /\ UNCHANGED cancelVars
    /\ UNCHANGED <<pureVars, formVars, agentSwarm, nRuns, nTransient>>

\* Variant: the remediation plan is recorded with round 0, like a first plan.
AfterReplan_RoundZero(r) ==
    /\ Settled(r, "replan")
    /\ IF ~Returned(r)
       THEN /\ SetRun(r, Throw(runs[r], runs[r].call.result))
            /\ UNCHANGED messages
       ELSE LET plan == PlanOf(runs[r], Value(r))
                idx == runs[r].idx
            IN /\ messages' = updateMessagePlan(
                                 appendCollaborationStep(messages, idx, "ORCHESTRATOR", 0),
                                 idx, plan.id)
               /\ SetRun(r, Wrote([runs[r] EXCEPT !.plan = plan, !.nPlans = plan.id,
                                                  !.remedyPlan = plan.id,
                                                  !.attempt = @ + 1, !.pc = "execute"]))
    /\ UNCHANGED <<cancelVars, pureVars, formVars, agentSwarm, isProcessing, nRuns, nTransient>>

\* The remediation plan returned: next iteration of the quality loop.
AfterReplan(r) ==
    /\ Settled(r, "replan")
    /\ IF ~Returned(r)
       THEN /\ SetRun(r, Throw(runs[r], runs[r].call.result))
            /\ UNCHANGED messages
       ELSE LET plan == PlanOf(runs[r], Value(r))
                idx == runs[r].idx
            IN /\ messages' = updateMessagePlan(
                                 appendCollaborationStep(messages, idx, "ORCHESTRATOR", 99),
                                 idx, plan.id)
               /\ SetRun(r, Wrote([runs[r] EXCEPT !.plan = plan, !.nPlans = plan.id,
                                                  !.remedyPlan = plan.id,
                                                  !.attempt = @ + 1, !.pc = "execute"]))
    /\ UNCHANGED <<cancelVars, pureVars, formVars, agentSwarm, isProcessing, nRuns, nTransient>>

\* catch / finally of startResearchExecution.
Catch(r) ==
    /\ cur = r
    /\ runs[r].pc = "catch"
    /\ IF runs[r].err.msg = "USER_ABORTED"
       THEN /\ messages' = setMessageText(messages, runs[r].idx, "Execution stopped by user.")
            /\ SetRun(r, Wrote([runs[r] EXCEPT !.pc = "stopped"]))
       ELSE /\ messages' = Append(SubSeq(messages, 1, Len(messages) - 1),
                                  ModelMsg("Sorry, the Research Team encountered an error.",
                                           FALSE, r))
            /\ SetRun(r, Wrote([runs[r] EXCEPT !.pc = "failed"]))
    /\ isProcessing' = FALSE
    /\ UNCHANGED <<cancelVars, pureVars, formVars, agentSwarm, nRuns, nTransient>>


RunIds == 1..MaxRuns

\* positions in messages, in clarification.questions and in question.options
MsgIds == 1..(3 * MaxRuns)
QuestionIdx == {1, 2}
OptionIdx == {1, 2, 3}

\* positions in allTasks (the largest plan has two tasks)
TaskIds == {1, 2}

RunStep(r) ==
    \/ ApiResolve(r) \/ ApiReject(r) \/ ApiWake(r)
    \/ AfterClarify(r) \/ StartResearch(r) \/ AfterPlan(r)
    \/ ImprovePlan(r) \/ AfterReview(r) \/ AfterRefine(r)
    \/ Execute(r) \/ AfterSynth(r) \/ AfterAudit(r) \/ AfterReplan(r) \/ Catch(r)
    \/ \E k \in TaskIds : TaskResolve(r, k) \/ TaskReject(r, k) \/ TaskWake(r, k)

\* Spec: one user turn. The user sends one query and, if the turn pauses for
\* clarification, selects the first option of each question and submits the
\* answers once; stops, document removals and transient failures occur at
\* any time. (SpecClarify explores the form itself.)
Next ==
    \/ handleSend /\ nRuns = 0
    \/ \E m \in MsgIds, i \in QuestionIdx : handleOptionToggle(m, i, 1) /\ nRuns = 1
    \/ submitClarificationAnswers /\ nRuns = 1
    \/ handleStop
    \/ removeAgent
    \/ \E r \in RunIds : RunStep(r)

Spec == Init /\ [][Next]_vars

\* SpecRace: overlapping turns. Up to MaxRaceRuns queries or submitted
\* clarifications, each allowed as soon as the code allows it (a new query
\* after handleStop while the stopped activation is still running); the
\* planner answers with SIMPLE_FACT plans, there is no backoff and no removal.
RaceInit ==
    /\ activeController = NoController
    /\ abortedTokens = {}
    /\ nextToken = 1
    /\ rc = NewCall(0, 0)
    /\ rcHist = <<>>
    /\ rcLast = Ok("")
    /\ rcCancelled = [at |-> "none", inv |-> 0]
    /\ agentSwarm = Docs
    /\ messages = <<>>
    /\ isProcessing = FALSE
    /\ runs = <<>>
    /\ nRuns = 0
    /\ cur = 0
    /\ nTransient = MaxTransient
    /\ clarificationAnswers = NoAnswers
    /\ customInputMap = NoCustomInput
    /\ parseText = <<>>
    /\ parsed = NotCalled
    /\ balancedOut = NotBalanced
    /\ swarmInit = NoSwarmInit
    /\ sessions = NoSessions
    /\ latest = Briefed(agentSwarm)

RacePayloads ==
    ClarificationPayloads \cup TextPayloads \cup {Payload("SIMPLE_FACT", <<"d1">>, "", FALSE, 0)}

RaceStep(r) ==
    \/ ApiResolveWith(r, RacePayloads) \/ ApiReject(r)
    \/ AfterClarify(r) \/ StartResearch(r) \/ AfterPlan(r)
    \/ Execute(r) \/ AfterSynth(r) \/ Catch(r)
    \/ \E k \in TaskIds : TaskResolve(r, k) \/ TaskReject(r, k)

RaceNext ==
    \/ handleSend /\ nRuns < MaxRaceRuns
    \/ \E m \in MsgIds, i \in QuestionIdx : handleOptionToggle(m, i, 1)
    \/ submitClarificationAnswers /\ nRuns < MaxRaceRuns
    \/ handleStop
    \/ \E r \in RunIds : RaceStep(r)

SpecRace == RaceInit /\ [][RaceNext]_vars

\* SpecClarify: the clarification form. Queries, clicks on options, typing
\* into the custom slot and Start Research, in any order the page allows;
\* the gate answers every query, the planner has not answered yet.
ClarifyStep(r) ==
    \/ ApiResolveWith(r, ClarificationPayloads \cup FormPayloads)
    \/ AfterClarify(r)
    \/ StartResearch(r)

ClarifyNext ==
    \/ handleSend
    \/ \E m \in MsgIds, i \in QuestionIdx, o \in OptionIdx : handleOptionToggle(m, i, o)
    \/ \E m \in MsgIds, i \in QuestionIdx : setCustomInput(m, i)
    \/ submitClarificationAnswers
    \/ \E r \in RunIds : ClarifyStep(r)

SpecClarify == Init /\ [][ClarifyNext]_vars

(***************************************************************************)
(* SpecRegistry: initializeAgentSwarm, removeAgent, getSwarmStatus         *)
(***************************************************************************)
\* The file lists handleFileUpload passes on: one or two files, in any order.
FileLists == { <<"d1">>, <<"d2">>, <<"d1", "d2">>, <<"d2", "d1">> }

getSwarmStatus == agentSwarm

Logged(si, out) == [si EXCEPT !.log = Append(@, out)]

\* initializeAgentSwarm returns or throws.
EndBatch(si) == [si EXCEPT !.st = "idle", !.i = 0, !.call = NewCall(0, 0)]

\* The loop head for files[i]: the end of the loop, or checkAbort() and the
\* await of fileToGenerativePart(file), both outside the try block.
BriefFile(si, i, ac, ab) ==
    IF i > Len(si.files)
    THEN EndBatch(si)
    ELSE IF checkAbort(ac, ab)
    THEN EndBatch(Logged(si, "aborted"))
    ELSE [si EXCEPT !.st = "reading", !.i = i]

\* Variant: a successful briefing does not store the session.
BriefContinue_NoSet(si, swarm, ses, lat, ac, ab) ==
    IF si.st # "briefing" \/ si.call.phase \in {"apiCall", "wait"}
    THEN [si |-> si, swarm |-> swarm, ses |-> ses, lat |-> lat]
    ELSE LET d == si.files[si.i] IN
         IF si.call.phase = "returned"
         THEN [si |-> BriefFile(Logged(si, "ok"), si.i + 1, ac, ab),
               swarm |-> swarm, ses |-> ses,
               lat |-> [lat EXCEPT ![d] = "succeeded"]]
         ELSE IF si.call.result.msg = "USER_ABORTED"
         THEN [si |-> EndBatch(Logged(si, "aborted")), swarm |-> swarm, ses |-> ses,
               lat |-> [lat EXCEPT ![d] = "failed"]]
         ELSE [si |-> BriefFile(Logged(si, "failed"), si.i + 1, ac, ab),
               swarm |-> swarm, ses |-> ses,
               lat |-> [lat EXCEPT ![d] = "failed"]]

\* Variant: a failed briefing deletes the session the document had.
BriefContinue_DropOnFailure(si, swarm, ses, lat, ac, ab) ==
    IF si.st # "briefing" \/ si.call.phase \in {"apiCall", "wait"}
    THEN [si |-> si, swarm |-> swarm, ses |-> ses, lat |-> lat]
    ELSE LET d == si.files[si.i] IN
         IF si.call.phase = "returned"
         THEN [si |-> BriefFile(Logged(si, "ok"), si.i + 1, ac, ab),
               swarm |-> swarm \cup {d},
               ses |-> [ses EXCEPT ![d] = si.n],
               lat |-> [lat EXCEPT ![d] = "succeeded"]]
         ELSE IF si.call.result.msg = "USER_ABORTED"
         THEN [si |-> EndBatch(Logged(si, "aborted")), swarm |-> swarm \ {d},
               ses |-> [ses EXCEPT ![d] = 0],
               lat |-> [lat EXCEPT ![d] = "failed"]]
         ELSE [si |-> BriefFile(Logged(si, "failed"), si.i + 1, ac, ab),
               swarm |-> swarm \ {d},
               ses |-> [ses EXCEPT ![d] = 0],
               lat |-> [lat EXCEPT ![d] = "failed"]]

\* The continuation once the call for files[i] has settled: agentSwarm.set
\* with the chat of this activation after a return; after a throw the catch,
\* which rethrows USER_ABORTED and otherwise logs and goes on with the next
\* file.
BriefContinue(si, swarm, ses, lat, ac, ab) ==
    IF si.st # "briefing" \/ si.call.phase \in {"apiCall", "wait"}
    THEN [si |-> si, swarm |-> swarm, ses |-> ses, lat |-> lat]
    ELSE LET d == si.files[si.i] IN
         IF si.call.phase = "returned"
         THEN [si |-> BriefFile(Logged(si, "ok"), si.i + 1, ac, ab),
               swarm |-> swarm \cup {d},
               ses |-> [ses EXCEPT ![d] = si.n],
               lat |-> [lat EXCEPT ![d] = "succeeded"]]
         ELSE IF si.call.result.msg = "USER_ABORTED"
         THEN [si |-> EndBatch(Logged(si, "aborted")), swarm |-> swarm, ses |-> ses,
               lat |-> [lat EXCEPT ![d] = "failed"]]
         ELSE [si |-> BriefFile(Logged(si, "failed"), si.i + 1, ac, ab),
               swarm |-> swarm, ses |-> ses,
               lat |-> [lat EXCEPT ![d] = "failed"]]

SetBriefing(next) ==
    /\ swarmInit' = next.si
    /\ agentSwarm' = next.swarm
    /\ sessions' = next.ses
    /\ latest' = next.lat

\* handleFileUpload -> initializeAgentSwarm(files)
initializeAgentSwarm ==
    /\ swarmInit.st = "idle"
    /\ swarmInit.n < MaxBriefings
    /\ initController
    /\ \E files \in FileLists :
         swarmInit' = BriefFile([swarmInit EXCEPT !.files = files, !.n = @ + 1,
                                                  !.log = <<>>],
                                1, activeController', abortedTokens')
    /\ UNCHANGED <<retryVars, parseVars, formVars, agentSwarm, sessions, latest, messages,
                   isProcessing, runs, nRuns, cur, nTransient>>

\* fileToGenerativePart resolves: ai.chats.create, then inside the try
\* checkAbort() and callGeminiWithRetry(chat.sendMessage, 3, 3000).
BriefRead ==
    /\ swarmInit.st = "reading"
    /\ SetBriefing(BriefContinue(
           [swarmInit EXCEPT !.st = "briefing",
                             !.call = EnterCall(3, 3000, activeController, abortedTokens)],
           agentSwarm, sessions, latest, activeController, abortedTokens))
    /\ UNCHANGED <<cancelVars, retryVars, parseVars, formVars, messages, isProcessing, runs,
                   nRuns, cur, nTransient>>

\* fileToGenerativePart rejects (reader.onerror): the await is outside the
\* try block, so initializeAgentSwarm throws the reader's error.
BriefReadFails ==
    /\ swarmInit.st = "reading"
    /\ swarmInit' = EndBatch(Logged(swarmInit, "unreadable"))
    /\ latest' = [latest EXCEPT ![swarmInit.files[swarmInit.i]] = "failed"]
    /\ UNCHANGED <<cancelVars, retryVars, parseVars, formVars, agentSwarm, sessions,
                   messages, isProcessing, runs, nRuns, cur, nTransient>>

\* chat.sendMessage resolves.
BriefResolve ==
    /\ swarmInit.st = "briefing"
    /\ swarmInit.call.phase = "apiCall"
    /\ SetBriefing(BriefContinue(
           [swarmInit EXCEPT !.call = RetryOnSettle(@, Ok(""), activeController,
                                                   abortedTokens, 0)],
           agentSwarm, sessions, latest, activeController, abortedTokens))
    /\ UNCHANGED <<cancelVars, retryVars, parseVars, formVars, messages, isProcessing, runs,
                   nRuns, cur, nTransient>>

\* chat.sendMessage rejects.
BriefReject ==
    /\ swarmInit.st = "briefing"
    /\ swarmInit.call.phase = "apiCall"
    /\ \E e \in RemoteErrors, j \in Jitters :
         LET f == RetryOnSettle(swarmInit.call, e, activeController, abortedTokens, j) IN
         /\ f.phase = "wait" => nTransient < MaxTransient
         /\ nTransient' = IF f.phase = "wait" THEN nTransient + 1 ELSE nTransient
         /\ SetBriefing(BriefContinue([swarmInit EXCEPT !.call = f], agentSwarm, sessions,
                                      latest, activeController, abortedTokens))
    /\ UNCHANGED <<cancelVars, retryVars, parseVars, formVars, messages, isProcessing, runs,
                   nRuns, cur>>

\* The backoff timer of the briefing fires.
BriefWake ==
    /\ swarmInit.st = "briefing"
    /\ swarmInit.call.phase = "wait"
    /\ SetBriefing(BriefContinue(
           [swarmInit EXCEPT !.call = RetryOnWake(@, activeController, abortedTokens)],
           agentSwarm, sessions, latest, activeController, abortedTokens))
    /\ UNCHANGED <<cancelVars, retryVars, parseVars, formVars, messages, isProcessing, runs,
                   nRuns, cur, nTransient>>

RegistryInit ==
    /\ activeController = NoController
    /\ abortedTokens = {}
    /\ nextToken = 1
    /\ rc = NewCall(0, 0)
    /\ rcHist = <<>>
    /\ rcLast = Ok("")
    /\ rcCancelled = [at |-> "none", inv |-> 0]
    /\ agentSwarm = {}
    /\ messages = <<>>
    /\ isProcessing = FALSE
    /\ runs = <<>>
    /\ nRuns = 0
    /\ cur = 0
    /\ nTransient = 0
    /\ clarificationAnswers = NoAnswers
    /\ customInputMap = NoCustomInput
    /\ parseText = <<>>
    /\ parsed = NotCalled
    /\ balancedOut = NotBalanced
    /\ swarmInit = NoSwarmInit
    /\ sessions = NoSessions
    /\ latest = Briefed({})

RegistryNext ==
    \/ initializeAgentSwarm
    \/ BriefRead
    \/ BriefReadFails
    \/ BriefResolve
    \/ BriefReject
    \/ BriefWake
    \/ removeAgent

SpecRegistry == RegistryInit /\ [][RegistryNext]_vars

(***************************************************************************)
(* Properties of the turn (Spec, SpecRace)                                 *)
(***************************************************************************)
\* C1: a run that was in flight when cancelRunningAgent was called (handleStop)
\* issues no remote call afterwards and, when it ends, ends in the stopped
\* (USER_ABORTED) state.
C1_StopEndsChain ==
    \A r \in DOMAIN runs :
        runs[r].stopped =>
            /\ ~runs[r].lateCall
            /\ runs[r].pc \in TerminalPcs => runs[r].pc = "stopped"

\* C3: a run that another top-level action has superseded while it was
\* awaiting a remote call issues no further remote call and writes nothing
\* into the conversation.
C3_StaleRunIsDead ==
    \A r \in DOMAIN runs :
        runs[r].superseded => ~runs[r].lateCallS /\ ~runs[r].lateWrite

\* C4: at most one controller that is not aborted exists, and it is the
\* installed one; every start of createCollaborativePlan, improvePlanWithCritic
\* or executeOrchestratorPlan aborts the controller installed before it and
\* installs a fresh one that is not aborted.
LiveTokens == (1..(nextToken - 1)) \ abortedTokens

StartsOrchestration(r) ==
    /\ cur = r
    /\ \/ runs[r].pc \in {"start", "improve", "execute"}
       \/ /\ runs[r].pc = "audit"
          /\ runs[r].call.phase = "returned"
          /\ runs[r].call.result.value.verdict = "REJECTED"
          /\ runs[r].attempt < MAX_RETRYS

InstallsFreshToken ==
    /\ activeController # NoController => activeController \in abortedTokens'
    /\ activeController' = nextToken
    /\ activeController' \notin abortedTokens'
    /\ LiveTokens' = {activeController'}

C4_SingleToken ==
    /\ [](Cardinality(LiveTokens) <= 1 /\ LiveTokens \subseteq {activeController})
    /\ [][\A r \in DOMAIN runs : StartsOrchestration(r) => InstallsFreshToken]_vars

C4_Witness ==
    \E r \in DOMAIN runs :
        /\ runs[r].pc = "tasks"
        /\ runs[r].reviews >= 1
        /\ activeController = nextToken - 1
        /\ Cardinality(abortedTokens) >= 3

C9_ReviewBound ==
    \A r \in DOMAIN runs :
        /\ runs[r].reviews <= MAX_ROUNDS
        /\ runs[r].pc \in {"review", "refine"} => runs[r].round \in 1..MAX_ROUNDS
        /\ runs[r].pc \in {"execute", "tasks", "synth"} =>
              runs[r].plan.id = runs[r].nPlans

C9_Witness ==
    \E r \in DOMAIN runs :
        /\ runs[r].pc = "tasks"
        /\ runs[r].attempt = 0
        /\ runs[r].reviews = MAX_ROUNDS
        /\ runs[r].approved = 0
        /\ runs[r].nPlans = MAX_ROUNDS + 1
        /\ runs[r].plan.id = MAX_ROUNDS + 1

\* C10: once a round has returned APPROVED there is no further reviewer or
\* refinement call, and the plan executed next is the approved one.
C10_StopAtApproval ==
    \A r \in DOMAIN runs :
        runs[r].approved # 0 =>
            /\ runs[r].pc \notin {"improve", "review", "refine"}
            /\ runs[r].reviews = runs[r].approved
            /\ runs[r].attempt = 0 /\ runs[r].pc \in {"execute", "tasks", "synth", "audit"} =>
                  /\ runs[r].plan.id = runs[r].approved
                  /\ runs[r].nPlans = runs[r].approved

C10_Witness ==
    \E r \in DOMAIN runs :
        /\ runs[r].pc = "tasks"
        /\ runs[r].attempt = 0
        /\ runs[r].approved = 3
        /\ runs[r].reviews = 3
        /\ runs[r].plan.id = 3

Reviewable(plan) == plan.plan_type = "DEEP_ANALYSIS" /\ Len(plan.tasks) > 0

\* The message the run writes into, if it is still where the run put it.
Placeholder(r) ==
    /\ runs[r].idx \in DOMAIN messages
    /\ messages[runs[r].idx].role = "model"
    /\ messages[runs[r].idx].by = r

CriticSteps(r) ==
    { i \in DOMAIN messages[runs[r].idx].steps :
          messages[runs[r].idx].steps[i].type = "CRITIC" }

C12_OneRemediation ==
    \A r \in DOMAIN runs :
        /\ runs[r].execs <= MAX_RETRYS + 1
        /\ Len(runs[r].verdicts) <= MAX_RETRYS + 1
        /\ runs[r].attempt <= MAX_RETRYS
        /\ Len(runs[r].verdicts) = 2 => runs[r].pc \in {"done", "catch", "stopped", "failed"}
        /\ runs[r].pc = "done" /\ runs[r].verdicts # <<>> /\ runs[r].verdicts[1] = "REJECTED" =>
              /\ runs[r].execs = 2
              /\ Len(runs[r].verdicts) = 2
              /\ runs[r].attempt = 1
              /\ runs[r].plan.id = runs[r].remedyPlan

C12_Witness ==
    \E r \in DOMAIN runs :
        /\ runs[r].pc = "done"
        /\ runs[r].verdicts = <<"REJECTED", "REJECTED">>
        /\ runs[r].execs = 2
        /\ Placeholder(r) /\ messages[runs[r].idx].text = "report"

\* C13: a remediation plan that is DEEP_ANALYSIS with at least one task is
\* passed to improvePlanWithCritic before it is executed.
C13_RemediationIsReviewed ==
    \A r \in DOMAIN runs :
        /\ runs[r].remedyPlan # 0
        /\ runs[r].pc \in {"tasks", "synth", "audit", "done"}
        /\ Reviewable(runs[r].plan)
        => runs[r].boardPlan = runs[r].remedyPlan

TaskErrors == {"Error: Expert not assigned.", "Error: Retrieval failed."}

\* C14: a task that finds no agent for its document, or whose remote call
\* fails with anything but a cancellation, is fulfilled with its error string;
\* it rejects no sibling, the join still waits for the pending siblings, and
\* once all are settled synthesis is started.
C14_TaskFailureIsLocal ==
    \A r \in DOMAIN runs :
        LET ts == runs[r].tasks IN
        /\ \A k \in DOMAIN ts :
              /\ ts[k].cause = "unassigned" =>
                    ts[k].st = "fulfilled" /\ ts[k].response = "Error: Expert not assigned."
              /\ ts[k].cause = "remote" =>
                    ts[k].st = "fulfilled" /\ ts[k].response = "Error: Retrieval failed."
              /\ ts[k].st = "rejected" => ts[k].cause = "abort"
        /\ ts # <<>> /\ (\A k \in DOMAIN ts : ts[k].cause # "abort") =>
              /\ runs[r].pc \in {"tasks", "synth"}
              /\ runs[r].pc = "synth" <=> \A k \in DOMAIN ts : ts[k].st # "pending"

C14_Witness ==
    \E r \in DOMAIN runs :
        /\ runs[r].pc = "synth"
        /\ runs[r].call.phase = "apiCall"
        /\ Len(runs[r].tasks) = 2
        /\ runs[r].tasks[1].cause = "remote"
        /\ runs[r].tasks[2].response = "answer"

\* C15: a task that ends while its document is not in agentSwarm ends with a
\* per-task error string, and a task that ends while its document is
\* registered, its remote call having succeeded, ends with its answer.
TaskEnds(r, k) ==
    /\ r \in DOMAIN runs /\ k \in DOMAIN runs[r].tasks
    /\ runs[r].tasks[k].st = "pending"
    /\ k \in DOMAIN runs'[r].tasks
    /\ runs'[r].tasks[k].st = "fulfilled"

C15_RemovedDocumentFails ==
    [][\A r \in RunIds, k \in TaskIds :
         TaskEnds(r, k) =>
            LET t == runs'[r].tasks[k] IN
            /\ t.doc \notin agentSwarm => t.response \in TaskErrors
            /\ t.doc \in agentSwarm /\ t.cause = "" => t.response = "answer"]_vars

\* C16: the synthesis call is entered only when every task of the plan has
\* its result: one result per task, in task order, none pending.
C16_SynthesisAfterJoin ==
    \A r \in DOMAIN runs :
        runs[r].pc = "synth" =>
            /\ Len(runs[r].tasks) = Len(runs[r].plan.tasks)
            /\ \A k \in DOMAIN runs[r].tasks :
                  /\ runs[r].tasks[k].st = "fulfilled"
                  /\ runs[r].tasks[k].doc = runs[r].plan.tasks[k]
                  /\ runs[r].tasks[k].response \in TaskErrors \cup {"answer"}

C16_Witness ==
    \E r \in DOMAIN runs :
        /\ runs[r].pc = "synth"
        /\ runs[r].call.phase = "apiCall"
        /\ Len(runs[r].tasks) = 2
        /\ \A k \in DOMAIN runs[r].tasks : runs[r].tasks[k].response = "answer"

\* C17: while a review round or a refinement is running, the first plan has
\* been returned and its proposal (ORCHESTRATOR, round 0) and the plan are
\* recorded in the turn's message, and nothing has been executed; when
\* execution of a reviewed plan starts, the review loop is over (APPROVED, or
\* MAX_ROUNDS rounds each followed by its refinement).
C17_StagesInOrder ==
    \A r \in DOMAIN runs :
        /\ runs[r].pc \in {"improve", "review", "refine"} =>
              /\ runs[r].plan.id >= 1
              /\ Placeholder(r)
              /\ messages[runs[r].idx].steps # <<>>
              /\ messages[runs[r].idx].steps[1] = [type |-> "ORCHESTRATOR", round |-> 0]
              /\ messages[runs[r].idx].plan # 0
        /\ runs[r].pc \in {"start", "plan", "improve", "review", "refine"} =>
              runs[r].execs = 0 /\ runs[r].tasks = <<>>
        /\ runs[r].pc \in {"execute", "tasks", "synth"} /\ runs[r].attempt = 0
              /\ runs[r].boardPlan # 0 =>
              \/ runs[r].approved = runs[r].plan.id
              \/ runs[r].reviews = MAX_ROUNDS /\ runs[r].round = MAX_ROUNDS + 1

(***************************************************************************)
(* Properties of the clarification form (SpecClarify)                      *)
(***************************************************************************)
\* C18: an activation that paused for clarification has made no planner
\* call; an activation started by submitClarificationAnswers answers a paused
\* activation and works on that activation's query text with the
\* clarification block appended.
C18_ResumeWithOriginalQuery ==
    \A r \in DOMAIN runs :
        /\ runs[r].pc = "paused" => runs[r].idx = 0 /\ runs[r].nPlans = 0
        /\ runs[r].resumes # 0 =>
              /\ runs[runs[r].resumes].pc = "paused"
              /\ runs[r].query.clarified
              /\ runs[r].query.orig = runs[runs[r].resumes].query.orig

\* C19: whenever the Start Research button of a clarification request is
\* enabled, every question of that request has a selected option, exactly one
\* if the question is single-choice.
C19_SubmitNeedsAllAnswers ==
    \A m \in DOMAIN messages :
        messages[m].clarification /\ SubmitEnabled(m) =>
            \A i \in DOMAIN messages[m].questions :
                LET q == messages[m].questions[i] IN
                /\ Len(clarificationAnswers[q.id]) >= 1
                /\ ~q.multiple_choice => Len(clarificationAnswers[q.id]) = 1

\* C20: a click on an option of a single-choice question leaves exactly that
\* option selected; on a multi-select question it adds the option if it was
\* not selected and removes it if it was; the selections of every other
\* question stay as they were. A single-choice question never has two
\* selected options.
Selected(ans, id) == { ans[id][j] : j \in DOMAIN ans[id] }

ToggleEffect(m, i, o) ==
    LET q == messages[m].questions[i]
        text == q.options[o].text
    IN /\ \A k \in QuestionIds \ {q.id} : clarificationAnswers'[k] = clarificationAnswers[k]
       /\ ~q.multiple_choice => clarificationAnswers'[q.id] = <<text>>
       /\ q.multiple_choice =>
             /\ Selected(clarificationAnswers', q.id) =
                   IF text \in Selected(clarificationAnswers, q.id)
                   THEN Selected(clarificationAnswers, q.id) \ {text}
                   ELSE Selected(clarificationAnswers, q.id) \cup {text}
             /\ Len(clarificationAnswers'[q.id]) =
                   Cardinality(Selected(clarificationAnswers', q.id))

C20_ToggleSemantics ==
    /\ [](\A m \in DOMAIN messages : \A i \in DOMAIN messages[m].questions :
             ~messages[m].questions[i].multiple_choice =>
                 Len(clarificationAnswers[messages[m].questions[i].id]) <= 1)
    /\ [][\A m \in MsgIds, i \in QuestionIdx, o \in OptionIdx :
             handleOptionToggle(m, i, o) => ToggleEffect(m, i, o)]_vars

C20_Witness ==
    /\ clarificationAnswers["q1"] = <<"b">>
    /\ clarificationAnswers["q2"] = <<"y", "x">>
    /\ customInputMap["q1"] = ""
    /\ \E m \in DOMAIN messages : Len(messages[m].questions) = 2

(***************************************************************************)
(* Failure handling of the stages (Spec)                                   *)
(***************************************************************************)
\* C21: generateClarificationQuestions never fails with an error other than
\* the cancellation: when the remote call fails for good or its output cannot
\* be parsed, it yields "no clarification needed", so that no turn ends
\* "failed" before startResearchExecution has begun.
C21_ClarifyFailureProceeds ==
    \A r \in DOMAIN runs :
        /\ ~(/\ runs[r].pc = "clarify"
             /\ runs[r].call.phase = "thrown"
             /\ runs[r].call.result.msg # "USER_ABORTED")
        /\ runs[r].pc = "failed" => runs[r].idx # 0

\* C22: a review-board call (runExecutiveBoard, reviewOutputWithBoard) whose
\* output cannot be parsed does not throw: the board's stage never settles
\* with the parse error.
C22_BoardParseFailureApproves ==
    \A r \in DOMAIN runs :
        ~(/\ runs[r].pc \in {"review", "audit"}
          /\ runs[r].call.phase = "thrown"
          /\ runs[r].call.result = ParseError)

\* C23: a failure of the planner (no output, unparsable output) or of the
\* synthesis call ends the turn "failed" with the failure message as the last
\* message and the busy flag cleared; a synthesis response without text is
\* not turned into a report: "Synthesis failed." is never the content handed
\* to the audit nor the text of a message.
FailureMessage == "Sorry, the Research Team encountered an error."

C23_FailedTurnShowsFailure ==
    \A r \in DOMAIN runs :
        runs[r].pc = "failed" /\ runs[r].idx # 0 =>
            /\ messages[Len(messages)].text = FailureMessage
            /\ ~isProcessing
            /\ runs[r].call.phase \notin {"apiCall", "wait"}
            /\ \A k \in DOMAIN runs[r].tasks : ~TaskPending(runs[r].tasks[k])

C23_NoFabricatedReport ==
    /\ \A r \in DOMAIN runs : runs[r].content # Content(EmptyText)
    /\ \A m \in DOMAIN messages : messages[m].text # Content(EmptyText)

C23_PlannerSynthFailureIsFatal == C23_FailedTurnShowsFailure /\ C23_NoFabricatedReport

(***************************************************************************)
(* Properties of the parser functions (SpecParse)                          *)
(***************************************************************************)
\* The texts the four strategies parse, in order: the text itself, the text
\* without code fences, its part from the first { to the last }, and the
\* balanced text. The third exists only when a { occurs with a } after it.
Candidate(s) == [exists |-> TRUE, s |-> s]
NoCandidate == [exists |-> FALSE, s |-> <<>>]

FirstToLast(s) ==
    LET opens == { i \in 1..Len(s) : s[i] = "{" }
        closes == { i \in 1..Len(s) : s[i] = "}" }
    IN IF opens = {} \/ closes = {} THEN NoCandidate
       ELSE LET a == CHOOSE i \in opens : \A k \in opens : i <= k
                b == CHOOSE i \in closes : \A k \in closes : i >= k
            IN IF a < b THEN Candidate(SubSeq(s, a, b)) ELSE NoCandidate

Strategies(t) ==
    LET unfenced == trim(removeFence(removeFenceJson(t))) IN
    << Candidate(t), Candidate(unfenced), FirstToLast(unfenced),
       Candidate(balanceJSON(unfenced)) >>

\* C24: cleanAndParseJSON returns the value of the first of the four
\* strategies whose text is JSON, and throws exactly when none is.
C24_FirstStrategyWins ==
    parsed.st # "none" =>
        LET cand == Strategies(parseText)
            good == { k \in 1..4 : cand[k].exists /\ IsJSON(cand[k].s) }
        IN IF good = {} THEN parsed.st = "thrown"
           ELSE /\ parsed.st = "returned"
                /\ parsed.value =
                     JSONparse(cand[CHOOSE k \in good : \A j \in good : k <= j].s).value

\* The sequences of closing tokens: at most one closing quote, then closing
\* brackets; at least one token and at most n.
Brackets(n) == UNION { [1..k -> {"}", "]"}] : k \in 0..n }
Closings(n) ==
    (Brackets(n) \ {<<>>}) \cup { <<"\"">> \o b : b \in Brackets(n - 1) }

C26_RoundsNonDecreasing ==
    \A m \in DOMAIN messages :
        LET steps == messages[m].steps IN
        \A i, j \in DOMAIN steps :
            i < j /\ steps[i].type = steps[j].type => steps[i].round <= steps[j].round

\* a refined plan, then a rejected report and the remediation plan
C26_Witness ==
    \E m \in DOMAIN messages :
        LET steps == messages[m].steps IN
        /\ \E i, j, k \in DOMAIN steps :
              /\ i < j /\ j < k
              /\ steps[i] = [type |-> "ORCHESTRATOR", round |-> 0]
              /\ steps[j] = [type |-> "ORCHESTRATOR", round |-> 1]
              /\ steps[k] = [type |-> "ORCHESTRATOR", round |-> 99]
        /\ \E i, j \in DOMAIN steps :
              /\ i < j
              /\ steps[i] = [type |-> "BOARD_REVIEW", round |-> 1]
              /\ steps[j] = [type |-> "BOARD_REVIEW", round |-> 2]

\* C27: the collaboration record of a turn is append-only and complete: a
\* step once recorded stays in its message, at its place and unchanged, and
\* the message of an activation holds one ORCHESTRATOR step for every plan
\* the planner returned to it and one BOARD_REVIEW step for every audit
\* verdict.
StepsOfType(m, type) ==
    { i \in DOMAIN messages[m].steps : messages[m].steps[i].type = type }

C27_RecordAppendOnly ==
    /\ [][\A m \in DOMAIN messages :
             messages[m].steps # <<>> =>
                 /\ m \in DOMAIN messages'
                 /\ Len(messages'[m].steps) >= Len(messages[m].steps)
                 /\ SubSeq(messages'[m].steps, 1, Len(messages[m].steps)) =
                        messages[m].steps]_vars
    /\ [](\A r \in DOMAIN runs :
             runs[r].nPlans > 0 =>
                 /\ runs[r].idx \in DOMAIN messages
                 /\ Cardinality(StepsOfType(runs[r].idx, "ORCHESTRATOR")) = runs[r].nPlans
                 /\ Cardinality(StepsOfType(runs[r].idx, "BOARD_REVIEW")) =
                        Len(runs[r].verdicts))

(***************************************************************************)
(* Termination of a turn (SpecLive)                                        *)
(***************************************************************************)
\* The stage an activation is in.
Stage(pc) ==
    CASE pc = "clarify" -> "CLARIFY"
      [] pc \in {"start", "plan", "refine", "replan"} -> "PLAN"
      [] pc \in {"improve", "review"} -> "REVIEW"
      [] pc \in {"execute", "tasks"} -> "EXECUTE"
      [] pc = "synth" -> "SYNTHESIZE"
      [] pc = "audit" -> "AUDIT"
      [] pc = "catch" -> "ERROR"
      [] pc = "paused" -> "PAUSED"
      [] pc = "done" -> "DONE"
      [] pc = "stopped" -> "CANCELLED"
      [] pc = "failed" -> "FAILED"

\* CLARIFY? -> PLAN -> [REVIEW <-> PLAN]* -> EXECUTE -> SYNTHESIZE -> AUDIT ->
\* (PLAN again), with the exits to the terminal states; an error leaves any
\* stage and ends the turn CANCELLED or FAILED.
StageFollows ==
    { <<"CLARIFY", "PLAN">>, <<"CLARIFY", "PAUSED">>, <<"CLARIFY", "FAILED">>,
      <<"PLAN", "REVIEW">>, <<"PLAN", "EXECUTE">>,
      <<"REVIEW", "PLAN">>, <<"REVIEW", "EXECUTE">>,
      <<"EXECUTE", "SYNTHESIZE">>,
      <<"SYNTHESIZE", "AUDIT">>, <<"SYNTHESIZE", "DONE">>,
      <<"AUDIT", "PLAN">>, <<"AUDIT", "DONE">>,
      <<"ERROR", "CANCELLED">>, <<"ERROR", "FAILED">> }
    \cup { <<st, "ERROR">> : st \in {"PLAN", "REVIEW", "EXECUTE", "SYNTHESIZE", "AUDIT"} }

\* C28, its order: an activation begins in CLARIFY (handleSend) or in PLAN
\* (submitClarificationAnswers), moves from stage to stage along StageFollows,
\* re-plans after an audit only while no remediation has been made, and
\* never leaves a terminal state.
C28_StageSteps ==
    \A r \in DOMAIN runs' :
        IF r \in DOMAIN runs
        THEN LET a == Stage(runs[r].pc)
                 b == Stage(runs'[r].pc)
             IN /\ a # b => <<a, b>> \in StageFollows
                /\ a = "AUDIT" /\ b = "PLAN" => runs[r].attempt < MAX_RETRYS
        ELSE Stage(runs'[r].pc) \in {"CLARIFY", "PLAN"}

LiveNext ==
    \/ handleSend /\ nRuns = 0
    \/ \E m \in MsgIds, i \in QuestionIdx : handleOptionToggle(m, i, 1) /\ nRuns = 1
    \/ submitClarificationAnswers /\ nRuns = 1
    \/ handleStop
    \/ \E r \in RunIds : RunStep(r)

SpecLive == Init /\ [][LiveNext]_vars /\ WF_vars(\E r \in RunIds : RunStep(r))

(***************************************************************************)
(* Properties of the agent registry                                        *)
(***************************************************************************)
\* C29: no step of a turn (planning, review, execution, synthesis, audit)
\* changes the keys of agentSwarm, and a step that does change them is taken
\* between turns: no activation is in flight, in particular none has tasks
\* executing.
C29_RegistryChangesBetweenTurns ==
    [][agentSwarm' # agentSwarm =>
          /\ runs' = runs
          /\ \A r \in DOMAIN runs : ~InFlight(runs[r])]_vars

\* The entries the step adds to the log of the batch.
NewLogEntries ==
    { k \in 1..Len(swarmInit'.log) :
        swarmInit'.n = swarmInit.n => k > Len(swarmInit.log) }

\* C30: the keys of agentSwarm, which getSwarmStatus returns, are exactly the
\* documents whose latest briefing succeeded and that were not removed since.
C30_StatusIsLatestBriefing ==
    getSwarmStatus = { d \in Docs : latest[d] = "succeeded" }

\* C30, amended: the keys of agentSwarm are the documents of which a briefing
\* has succeeded since they were last removed. A successful briefing
\* registers the document, a removal unregisters it, a failed briefing
\* changes nothing; a document never briefed and not there from the start is
\* not registered.
C30_StatusIsBriefedNotRemoved ==
    [][\A d \in Docs :
          /\ latest'[d] = "succeeded" => d \in getSwarmStatus'
          /\ latest'[d] \in {"none", "removed"} => d \notin getSwarmStatus'
          /\ latest'[d] = "failed" => (d \in getSwarmStatus' <=> d \in getSwarmStatus)]_vars

\* d1 is listed after a briefing of it has failed, d2 has been removed
C30_Witness ==
    /\ getSwarmStatus = {"d1"}
    /\ latest = [d1 |-> "failed", d2 |-> "removed"]

\* The documents whose turn of the loop the step ends with outcome out.
Ended(out) ==
    { swarmInit'.files[k] : k \in { j \in NewLogEntries : swarmInit'.log[j] = out } }

\* C39: a briefing that fails for a registered document leaves its entry as
\* it is: the document stays registered with the session it had. An entry
\* is replaced only when a briefing of its document succeeds, and then by
\* the session that briefing created.
C39_FailureKeepsEntry ==
    [][\A d \in agentSwarm :
          /\ d \in Ended("failed") \cup Ended("unreadable") \cup Ended("aborted") =>
                d \in agentSwarm' /\ sessions'[d] = sessions[d]
          /\ d \in agentSwarm' /\ sessions'[d] # sessions[d] =>
                d \in Ended("ok") /\ sessions'[d] = swarmInit.n]_vars

\* d1, registered by the first activation, has kept its session through a
\* failed briefing in the second; d2 has been briefed again with success
C39_Witness ==
    /\ swarmInit.n = 2
    /\ swarmInit.st = "idle"
    /\ latest = [d1 |-> "failed", d2 |-> "succeeded"]
    /\ agentSwarm = {"d1", "d2"}
    /\ sessions = [d1 |-> 1, d2 |-> 2]

\* C31: a file of the batch whose briefing succeeds is registered, and one
\* whose briefing fails otherwise than by a cancellation is skipped: if it is
\* not the last file of the batch, the loop goes on with the next file.
C31_FailureIsSkipped ==
    [][\A k \in NewLogEntries :
          /\ swarmInit'.log[k] = "ok" => swarmInit'.files[k] \in agentSwarm'
          /\ swarmInit'.log[k] \in {"failed", "unreadable"} /\ k < Len(swarmInit'.files)
                => swarmInit'.st = "reading" /\ swarmInit'.i = k + 1]_vars

(***************************************************************************)
(* Properties of execution, audit and review                               *)
(***************************************************************************)
\* C32: executeOrchestratorPlan called with a plan without tasks dispatches
\* no task (no question is sent to an agent session, the expert reports of
\* the synthesis prompt are empty) and goes straight to the one synthesis
\* call of the execution.
C32_NoTasksGoesToSynthesis ==
    [][\A r \in DOMAIN runs :
          /\ r \in DOMAIN runs' /\ runs'[r].plan.tasks = <<>>
                => runs'[r].tasks = <<>> /\ runs'[r].pc # "tasks"
          /\ runs[r].pc = "execute" /\ runs[r].plan.tasks = <<>> /\ runs'[r] # runs[r]
                => /\ runs'[r].pc = "synth"
                   /\ runs'[r].execs = runs[r].execs + 1
                   /\ runs'[r].call.phase = "apiCall"
                   /\ runs'[r].call.invocations = 1
                   /\ runs'[r].call.retries = 3]_vars

\* the synthesis call of a plan without tasks is in flight
C32_Witness ==
    \E r \in DOMAIN runs :
        /\ runs[r].pc = "synth"
        /\ runs[r].plan.tasks = <<>>
        /\ runs[r].execs = 1
        /\ runs[r].call.phase = "apiCall"

\* C33: the installed controller, if there is one, is not aborted: a
\* controller that has been aborted is never the value of activeController.
C33_InstalledTokenIsLive ==
    activeController # NoController => activeController \notin abortedTokens

\* a controller is installed after two earlier ones have been aborted, one
\* of them by Stop
C33_Witness ==
    /\ activeController # NoController
    /\ Cardinality(abortedTokens) >= 2
    /\ \E r \in DOMAIN runs : runs[r].stopped

\* C36: when executeOrchestratorPlan has returned, the audit call follows iff
\* the executed plan is DEEP_ANALYSIS or the execution is a retry; otherwise
\* the report is written at once and the turn is done. An audit starts only
\* after an execution. A turn whose first plan is SIMPLE_FACT keeps that
\* plan, makes no audit call and no re-plan.
C36_AuditIffDeepOrRetry ==
    [][\A r \in DOMAIN runs :
          LET run == runs[r]
              next == runs'[r]
              audited == run.plan.plan_type = "DEEP_ANALYSIS" \/ run.attempt > 0
          IN /\ run.pc = "synth" /\ run.call.phase = "returned" /\ next # run =>
                   /\ audited <=> next.pc = "audit"
                   /\ ~audited =>
                         /\ next.pc = "done"
                         /\ next.verdicts = <<>>
                         /\ next.execs = 1
                         /\ messages' = setMessageText(messages, run.idx,
                                                       Content(run.call.result.value))
             /\ next.pc = "audit" => run.pc \in {"synth", "audit"}
             /\ run.plan.id = 1 /\ run.plan.plan_type = "SIMPLE_FACT" =>
                   /\ next.plan = run.plan
                   /\ next.pc \notin {"audit", "replan", "review", "refine"}
                   /\ next.attempt = 0
                   /\ next.verdicts = <<>>]_vars

\* a turn whose only plan was SIMPLE_FACT has written its report unaudited
C36_Witness ==
    \E r \in DOMAIN runs :
        /\ runs[r].pc = "done"
        /\ runs[r].plan.id = 1
        /\ runs[r].plan.plan_type = "SIMPLE_FACT"
        /\ runs[r].execs = 1
        /\ runs[r].verdicts = <<>>
        /\ Placeholder(r) /\ messages[runs[r].idx].text = "report"

\* C37: in improvePlanWithCritic a REJECTED verdict, in round 5 as in any
\* other, is followed by one refinement call; a refinement that returns is
\* recorded as a new proposal, and after round 5 it is returned without a
\* further review. So the proposals made by refinement are as many as the
\* REJECTED verdicts, and the plan returned after five rejections has a
\* number above that of every review made.
C37_RejectionIsRefined ==
    [][\A r \in DOMAIN runs :
          LET run == runs[r]
              next == runs'[r]
              rejected == next.reviews - (IF next.approved # 0 THEN 1 ELSE 0)
          IN /\ run.pc = "review" /\ run.call.phase = "returned" /\ next # run
                /\ run.call.result.value.verdict = "REJECTED" =>
                   /\ next.pc = "refine"
                   /\ next.round = run.round
                   /\ next.call.phase = "apiCall" /\ next.call.invocations = 1
                   /\ next.nPlans = run.nPlans
             /\ next.pc = "refine" => run.pc \in {"review", "refine"}
             /\ run.pc = "refine" /\ run.call.phase = "returned" /\ next # run =>
                   /\ next.nPlans = run.nPlans + 1
                   /\ next.plan.id = next.nPlans
                   /\ messages' = (IF run.round = MAX_ROUNDS
                                   THEN updateMessagePlan(
                                            appendCollaborationStep(messages, run.idx,
                                                "ORCHESTRATOR", run.round),
                                            run.idx, next.plan.id)
                                   ELSE appendCollaborationStep(messages, run.idx,
                                            "ORCHESTRATOR", run.round))
                   /\ next.pc = (IF run.round = MAX_ROUNDS THEN "execute" ELSE "review")
                   /\ next.reviews = (IF run.round = MAX_ROUNDS THEN run.reviews
                                      ELSE run.reviews + 1)
             /\ next.attempt = 0 /\ next.boardPlan # 0 /\ next.pc = "execute" =>
                   /\ next.nPlans - 1 = rejected
                   /\ rejected = MAX_ROUNDS => next.plan.id > next.reviews]_vars

\* the refinement call that follows the rejection of round 5 is in flight
C37_Witness ==
    \E r \in DOMAIN runs :
        /\ runs[r].pc = "refine"
        /\ runs[r].round = MAX_ROUNDS
        /\ runs[r].reviews = MAX_ROUNDS
        /\ runs[r].nPlans = MAX_ROUNDS
        /\ runs[r].call.phase = "apiCall"

(***************************************************************************)
(* Properties of overlapping turns                                         *)
(***************************************************************************)
\* C34: a step of an activation (cur is the activation running) changes or
\* removes no message but the model messages the activation created itself:
\* every user message and every message of another activation stays where
\* it is, as it is.
C34_WritesOwnPlaceholder ==
    [][cur # 0 =>
          \A k \in DOMAIN messages :
              messages[k].by # cur =>
                  k \in DOMAIN messages' /\ messages'[k] = messages[k]]_vars

\* The activations that have not finished.
Executing == { r \in DOMAIN runs : InFlight(runs[r]) }

\* C35: at most one activation is executing, and isProcessing is true while
\* one is: until it has written its result, stopped, failed or paused for the
\* user's answers.
C35_OneRunAtATime ==
    /\ Cardinality(Executing) <= 1
    /\ Executing # {} => isProcessing

(***************************************************************************)
(* Properties of the parser, continued                                     *)
(***************************************************************************)
\* C38: balanceJSON is idempotent: applied to a text it has returned, it
\* returns that text unchanged (the scan of a balanced text ends outside any
\* string literal, with an empty stack).
C38_BalanceIsIdempotent ==
    balancedOut.st = "returned" => balanceJSON(balancedOut.value) = balancedOut.value

====
